---- MODULE Spec2Model ----
(***************************************************************************)
(* A model of AAFInspector-Extended:                                       *)
(*   - parse_aaf.py: the timeline reconstructor over a JSON document;      *)
(*   - AAFInspector.py / AAFInspector-enhanced.py: the lazy TreeItem tree  *)
(*     over the aaf2 object graph and the JSON projector of the window;    *)
(*   - AAFInspector-Extended-Batch.py: the batch projector.                *)
(***************************************************************************)
EXTENDS Integers, Sequences, FiniteSets, TLC

VARIABLES
    comps,      \* parse_aaf: the "Components" node handed to parse_components
    timeline,   \* parse_aaf: what parse_components returned for comps
    doc,        \* parse_aaf: the JSON document main loads
    pcm,        \* parse_aaf: the last parse_composition_mob call and its result
    out,        \* parse_aaf: what main printed
    app,        \* inspector: which program runs, AAFInspector or AAFInspector-enhanced
    graph,      \* inspector: the aaf2 object graph of the opened file (read-only)
    tree,       \* inspector: the TreeItems created so far, by their path of rows
    last,       \* inspector: the last childCount / child call and its result
    exports,    \* inspector: the documents exportToJson produced, in order
    steps,      \* inspector: how many rowCount / index / childCount / child calls were made
    batch,      \* batch converter: the result of Worker._process_file
    worker,     \* batch converter: the Worker object and the position of its run()
    trim,       \* trim_json: the exclusion set, the tagged values and what the filter returned
    window      \* enhanced inspector: the Window's file handle, model and search fields

vars == <<comps, timeline, doc, pcm, out, app, graph, tree, last, exports, steps, batch, worker, trim, window>>
parseVars == <<comps, timeline, doc, pcm, out>>
treeVars == <<app, graph, tree, last, exports, steps, batch, worker, trim, window>>

(***************************************************************************)
(* Python values.  A JSON object is a function from its keys to values, a  *)
(* JSON array a sequence, a scalar a tagged record; None is Python's None. *)
(***************************************************************************)
None == [t |-> "None"]
Raised == [t |-> "raise"]
NotRun == [t |-> "notrun"]

PyInt(n) == [t |-> "int", v |-> n]
PyFloat(s) == [t |-> "float", f |-> s]
PyStr(cs) == [t |-> "str", s |-> cs]
\* a list a function returns (the arrays inside a document are plain sequences)
PyList(items) == [t |-> "list", items |-> items]

\* isinstance(x, dict): the tagged scalars carry the key "t", a JSON node never does
IsDict(x) == "t" \notin DOMAIN x

\* d.get(k, default)
DictGet(d, k, default) == IF k \in DOMAIN d THEN d[k] ELSE default

\* the key None of a call such as get_child_property(node, 'Slots', property_name=None):
\* it is no string, so it is no key of any JSON object
NoKey == "<None>"

\* bool(x) for the values the parser tests: None, dicts, lists and scalars
Truthy(x) ==
    IF x = None THEN FALSE
    ELSE IF IsDict(x) THEN DOMAIN x # {}
    ELSE IF x.t = "int" THEN x.v # 0
    ELSE IF x.t = "str" THEN x.s # <<>>
    ELSE IF x.t = "float" THEN x.f \notin {"0.0", "-0.0"}
    ELSE IF x.t = "list" THEN x.items # <<>>
    ELSE TRUE

Min(S) == CHOOSE i \in S : \A j \in S : i <= j
Max(S) == CHOOSE i \in S : \A j \in S : j <= i
Range(seq) == {seq[i] : i \in DOMAIN seq}

(***************************************************************************)
(* parse_aaf.py                                                            *)
(***************************************************************************)
\* the first direct child called child_name, 0 when there is none
FirstNamed(children, child_name) ==
    LET idx == {i \in DOMAIN children :
                   /\ IsDict(children[i])
                   /\ "name" \in DOMAIN children[i]
                   /\ children[i].name = child_name}
    IN  IF idx = {} THEN 0 ELSE Min(idx)

get_child_property(node, child_name, property_name) ==
    IF ~IsDict(node) \/ "children" \notin DOMAIN node THEN None
    ELSE LET i == FirstNamed(node.children, child_name)
         IN  IF i = 0 THEN None
             ELSE DictGet(node.children[i], property_name, None)

RECURSIVE KeyframesOf(_, _)
KeyframesOf(points, i) ==
    IF i > Len(points) THEN <<>>
    ELSE LET node == points[i]
             rest == KeyframesOf(points, i + 1)
         IN  IF IsDict(node) /\ "class" \in DOMAIN node /\ node.class = "ControlPoint"
             THEN LET time == get_child_property(node, "Time", "value")
                      value == get_child_property(node, "Value", "value")
                  IN  IF time # None /\ value # None
                      THEN <<[time_offset |-> time, value |-> value]>> \o rest
                      ELSE rest
             ELSE rest

parse_keyframes(varying_value_node) ==
    LET direct == DictGet(varying_value_node, "children", <<>>)
        cp_wrapper == get_child_property(varying_value_node, "ControlPoints", NoKey)
        points_to_check == IF Truthy(cp_wrapper)
                           THEN DictGet(cp_wrapper, "children", <<>>)
                           ELSE direct
    IN  PyList(KeyframesOf(points_to_check, 1))

\* effect_info['animated_params'][param_name] = keyframes
DictSet(d, k, v) == [x \in (DOMAIN d) \cup {k} |-> IF x = k THEN v ELSE d[x]]

RECURSIVE AnimatedParams(_, _, _)
AnimatedParams(params, i, acc) ==
    IF i > Len(params) THEN acc
    ELSE LET param_node == params[i]
         IN  IF IsDict(param_node) /\ "class" \in DOMAIN param_node
                    /\ param_node.class = "VaryingValue"
             THEN LET param_name == DictGet(param_node, "name", "Unknown Parameter")
                      keyframes == parse_keyframes(param_node)
                  IN  IF Truthy(keyframes)
                      THEN AnimatedParams(params, i + 1, DictSet(acc, param_name, keyframes.items))
                      ELSE AnimatedParams(params, i + 1, acc)
             ELSE AnimatedParams(params, i + 1, acc)

parse_effect(effect_node) ==
    LET name == DictGet(effect_node, "name", "Unknown Effect")
        params_list_node == get_child_property(effect_node, "Parameters", NoKey)
    IN  IF ~Truthy(params_list_node) \/ "children" \notin DOMAIN params_list_node
        THEN [name |-> name, animated_params |-> <<>>]
        ELSE [name |-> name,
              animated_params |-> AnimatedParams(params_list_node.children, 1, <<>>)]

\* int(s) for a str: an optional sign and at least one decimal digit, else ValueError
Digits == <<"0", "1", "2", "3", "4", "5", "6", "7", "8", "9">>
DigitVal(c) == (CHOOSE i \in DOMAIN Digits : Digits[i] = c) - 1
IsDigit(c) == \E i \in DOMAIN Digits : Digits[i] = c

RECURSIVE DigitsValue(_, _, _)
DigitsValue(cs, i, acc) ==
    IF i > Len(cs) THEN acc
    ELSE DigitsValue(cs, i + 1, acc * Len(Digits) + DigitVal(cs[i]))

PyIntOfStr(cs) ==
    LET signed == cs # <<>> /\ cs[1] \in {"-", "+"}
        body == IF signed THEN Tail(cs) ELSE cs
    IN  IF body = <<>> \/ \E i \in DOMAIN body : ~IsDigit(body[i]) THEN Raised
        ELSE IF signed /\ cs[1] = "-" THEN PyInt(0 - DigitsValue(body, 1, 0))
        ELSE PyInt(DigitsValue(body, 1, 0))

\* int(x): an int as it is, a str parsed, a dict or list a TypeError
PyIntOf(x) ==
    IF IsDict(x) THEN Raised
    ELSE IF x.t = "int" THEN x
    ELSE IF x.t = "str" THEN PyIntOfStr(x.s)
    ELSE Raised

\* x or 0
OrZero(x) == IF Truthy(x) THEN x ELSE PyInt(0)

\* the name of a SourceClip event
ClipName(component) ==
    LET source_mob_ref_node == get_child_property(component, "Source Mob Ref", NoKey)
    IN  IF Truthy(source_mob_ref_node) /\ "children" \in DOMAIN source_mob_ref_node
              /\ source_mob_ref_node.children # <<>>
        THEN DictGet(source_mob_ref_node.children[1], "name", "Unknown Clip")
        ELSE "Unknown Clip"

\* timeline[-1]['effects'].append(effect)
AppendEffect(tl, effect) ==
    [tl EXCEPT ![Len(tl)].effects = Append(@, effect)]

\* a cursor that a clip of negative length does not move
AdvanceCursorClamped(current_time_frames, duration) ==
    IF duration < 0 THEN current_time_frames ELSE current_time_frames + duration

\* current_time_frames += duration
AdvanceCursor(current_time_frames, duration) == current_time_frames + duration

RECURSIVE ComponentsLoop(_, _, _, _)
ComponentsLoop(children, i, tl, current_time_frames) ==
    IF i > Len(children) THEN PyList(tl)
    ELSE LET component == children[i]
         IN  IF ~IsDict(component)
             THEN ComponentsLoop(children, i + 1, tl, current_time_frames)
             ELSE IF DictGet(component, "class", "") = "SourceClip"
             THEN LET duration == PyIntOf(OrZero(get_child_property(component, "Length", "value")))
                  IN  IF duration = Raised THEN Raised
                      ELSE LET clip_event ==
                                   [event_number |-> Len(tl) + 1,
                                    type |-> "Clip",
                                    name |-> ClipName(component),
                                    start_time_frames |-> current_time_frames,
                                    duration_frames |-> duration.v,
                                    source_in_tc |-> get_child_property(component, "StartTime", "value"),
                                    effects |-> <<>>]
                           IN  ComponentsLoop(children, i + 1, Append(tl, clip_event),
                                              AdvanceCursor(current_time_frames, duration.v))
             ELSE IF DictGet(component, "class", "") = "OperationGroup"
             THEN IF tl = <<>>
                  THEN ComponentsLoop(children, i + 1, tl, current_time_frames)
                  ELSE LET effect == parse_effect(component)
                       IN  IF DOMAIN effect.animated_params # {}
                           THEN ComponentsLoop(children, i + 1, AppendEffect(tl, effect),
                                               current_time_frames)
                           ELSE ComponentsLoop(children, i + 1, tl, current_time_frames)
             ELSE ComponentsLoop(children, i + 1, tl, current_time_frames)

parse_components(components_node) ==
    IF ~Truthy(components_node) \/ "children" \notin DOMAIN components_node THEN PyList(<<>>)
    ELSE ComponentsLoop(components_node.children, 1, <<>>, 0)

RECURSIVE find_components_recursively(_)
RECURSIVE FindInChildren(_, _)
FindInChildren(children, i) ==
    IF i > Len(children) THEN None
    ELSE LET result == find_components_recursively(children[i])
         IN  IF Truthy(result) THEN result ELSE FindInChildren(children, i + 1)

find_components_recursively(node) ==
    IF IsDict(node) /\ "name" \in DOMAIN node /\ node.name = "Components"
          /\ "children" \in DOMAIN node
    THEN node
    ELSE IF IsDict(node) /\ "children" \in DOMAIN node
    THEN FindInChildren(node.children, 1)
    ELSE None

RECURSIVE SlotsLoop(_, _)
\* one slot of the loop: components_node is what find_components_recursively
\* found below it and tl what parse_components made of that
SlotStep(slots, i, components_node, tl) ==
    IF Truthy(components_node)
    THEN IF tl = Raised THEN Raised
         ELSE IF Truthy(tl) THEN tl
         ELSE SlotsLoop(slots, i + 1)
    ELSE SlotsLoop(slots, i + 1)

SlotsLoop(slots, i) ==
    IF i > Len(slots) THEN None
    ELSE SlotStep(slots, i, find_components_recursively(slots[i]),
                  parse_components(find_components_recursively(slots[i])))

parse_composition_mob(comp_mob_node) ==
    LET slots_node == get_child_property(comp_mob_node, "Slots", NoKey)
    IN  IF ~Truthy(slots_node) \/ "children" \notin DOMAIN slots_node THEN None
        ELSE SlotsLoop(slots_node.children, 1)

RECURSIVE find_node_by_path(_, _)
find_node_by_path(node, path) ==
    IF path = <<>> THEN node
    ELSE IF IsDict(node) /\ "children" \in DOMAIN node
    THEN LET i == FirstNamed(node.children, Head(path))
         IN  IF i = 0 THEN None
             ELSE find_node_by_path(node.children[i], Tail(path))
    ELSE None

path_to_mobs == <<"Header", "Header", "Content", "ContentStorage", "Mobs">>

\* the loop of main over all_comp_mobs, keeping best_timeline
RECURSIVE BestLoop(_, _, _)
\* one composition of the loop: parsed_timeline is what parse_composition_mob returned
BestStep(mobs, i, best_timeline, parsed_timeline) ==
    IF parsed_timeline = Raised THEN Raised
    ELSE IF Truthy(parsed_timeline)
    THEN LET is_good_parse ==
                 \/ Len(parsed_timeline.items) > 1
                 \/ /\ Len(parsed_timeline.items) = 1
                    /\ parsed_timeline.items[1].name # "Unknown Clip"
         IN  IF is_good_parse
                /\ (\/ best_timeline = None
                    \/ Len(parsed_timeline.items) > Len(best_timeline.items))
             THEN BestLoop(mobs, i + 1, parsed_timeline)
             ELSE BestLoop(mobs, i + 1, best_timeline)
    ELSE BestLoop(mobs, i + 1, best_timeline)

BestLoop(mobs, i, best_timeline) ==
    IF i > Len(mobs) THEN best_timeline
    ELSE BestStep(mobs, i, best_timeline, parse_composition_mob(mobs[i]))

\* [mob for mob in all_mobs if isinstance(mob, dict) and mob.get('class') == 'CompositionMob']
CompMobsOf(all_mobs) ==
    SelectSeq(all_mobs, LAMBDA mob : IsDict(mob) /\ DictGet(mob, "class", "") = "CompositionMob")

\* a report that prints whatever best_timeline holds, without testing it
ReportUntested(best_timeline) ==
    [kind |-> "timeline",
     events |-> IF best_timeline = None THEN <<>> ELSE best_timeline.items]

\* if best_timeline: print(json.dumps(best_timeline)) else: print("Error: ...")
Report(best_timeline) ==
    IF Truthy(best_timeline)
    THEN [kind |-> "timeline", events |-> best_timeline.items]
    ELSE [kind |-> "error", msg |-> "no valid timeline"]

\* the end of main: an exception of the loop leaves main uncaught
Finish(best_timeline) ==
    IF best_timeline = Raised
    THEN [kind |-> "raise", msg |-> "uncaught exception"]
    ELSE Report(best_timeline)

\* what main prints for the loaded document: a timeline, an error message, or
\* the traceback of an uncaught exception
main(data) ==
    LET mobs_node == find_node_by_path(data, path_to_mobs)
    IN  IF ~Truthy(mobs_node) \/ "children" \notin DOMAIN mobs_node
        THEN [kind |-> "error", msg |-> "no Mobs list"]
        ELSE LET all_comp_mobs == CompMobsOf(mobs_node.children)
             IN  IF all_comp_mobs = <<>>
                 THEN [kind |-> "error", msg |-> "no CompositionMob"]
                 ELSE Finish(BestLoop(all_comp_mobs, 1, None))

(***************************************************************************)
(* Input documents of parse_aaf.py, in the shape the projectors write:     *)
(* {"name", "class", "value"?, "children"?}.                               *)
(***************************************************************************)
Leaf(name, class) == [name |-> name, class |-> class]
Scalar(name, value) == [name |-> name, class |-> "Property", value |-> value]
Branch(name, class, children) == [name |-> name, class |-> class, children |-> children]

Absent == [t |-> "absent"]

\* a SourceClip: its Length scalar (unless absent), a StartTime, and the
\* "Source Mob Ref" wrapper the inspector injects when the clip names a mob
Clip(length, start, mob) ==
    Branch("SourceClip", "SourceClip",
           (IF length = Absent THEN <<>> ELSE <<Scalar("Length", length)>>)
           \o (IF start = Absent THEN <<>> ELSE <<Scalar("StartTime", start)>>)
           \o (IF mob = "" THEN <<>>
               ELSE <<Branch("Source Mob Ref", "MasterMob", <<Leaf(mob, "MasterMob")>>)>>))

ControlPoint(time, value) ==
    Branch("ControlPoint", "ControlPoint", <<Scalar("Time", time), Scalar("Value", value)>>)

OpacityPoints == <<ControlPoint(PyInt(0), PyFloat("1.0")), ControlPoint(PyInt(10), PyFloat("0.0"))>>

\* an OperationGroup whose Parameters hold one VaryingValue "Opacity"; its
\* control points lie under the VaryingValue or under a "ControlPoints" wrapper
OpacityGroup(wrapped) ==
    Branch("Dissolve", "OperationGroup",
           <<Branch("Parameters", "StrongRefVectorProperty",
                    <<Branch("Opacity", "VaryingValue",
                             IF wrapped
                             THEN <<Branch("ControlPoints", "StrongRefVectorProperty", OpacityPoints)>>
                             ELSE OpacityPoints)>>)>>)

PlainGroup == Branch("Effect", "OperationGroup", <<Scalar("IsTimeWarp", PyInt(0))>>)
Filler == Branch("Filler", "Filler", <<Scalar("Length", PyInt(20))>>)

ClipPool ==
    { Clip(PyInt(100), Absent, ""),
      Clip(PyInt(50), PyInt(10), "ClipA"),
      Clip(PyInt(0 - 3), Absent, ""),
      Clip(Absent, Absent, ""),
      Clip(None, Absent, "ClipB"),
      Clip(PyStr(<<"7">>), Absent, ""),
      Clip(PyStr(<<"a", "b">>), Absent, "") }

ComponentPool ==
    ClipPool \cup {OpacityGroup(FALSE), OpacityGroup(TRUE), PlainGroup, Filler, PyStr(<<"x">>)}

MaxComponents == 3

SeqsUpTo(S, n) == UNION {[1..k -> S] : k \in 0..n}

ComponentsNodes ==
    {Branch("Components", "StrongRefVectorProperty", cs) : cs \in SeqsUpTo(ComponentPool, MaxComponents)}

\* the inspector and the batch converter are not running
TreeIdle ==
    /\ app = ""
    /\ graph = <<>>
    /\ tree = <<>>
    /\ last = NotRun
    /\ exports = <<>>
    /\ window = NotRun
    /\ steps = 0
    /\ batch = NotRun
    /\ worker = NotRun
    /\ trim = NotRun

(***************************************************************************)
(* parse_components applied to one Components node                         *)
(***************************************************************************)
InitComponents ==
    /\ comps \in ComponentsNodes
    /\ timeline = NotRun
    /\ doc = None
    /\ pcm = NotRun
    /\ out = NotRun
    /\ TreeIdle

ParseComponents ==
    /\ timeline = NotRun
    /\ timeline' = parse_components(comps)
    /\ UNCHANGED <<comps, doc, pcm, out, treeVars>>

NextComponents == ParseComponents

SpecComponents == InitComponents /\ [][NextComponents]_vars

\* a timeline was returned: parse_components ran and did not raise
Returned == timeline.t = "list"

RECURSIVE SumDurations(_, _)
SumDurations(tl, k) ==
    IF k = 0 THEN 0 ELSE SumDurations(tl, k - 1) + tl[k].duration_frames

\* C1: in every timeline parse_components returns, each event starts at the sum
\* of the durations of the events before it (the first at 0)
C1_StartIsSumOfDurations ==
    Returned =>
        \A i \in DOMAIN timeline.items :
            timeline.items[i].start_time_frames = SumDurations(timeline.items, i - 1)

\* three events with durations of both signs
C1_Witness ==
    /\ Returned
    /\ Len(timeline.items) = 3
    /\ timeline.items[2].duration_frames < 0
    /\ timeline.items[3].start_time_frames > 0
    /\ timeline.items[3].duration_frames > 0

IsClip(c) == IsDict(c) /\ c.class = "SourceClip"
ClipCount(children, i) == Cardinality({j \in 1..i : IsClip(children[j])})

ExpectedOpacity ==
    <<[time_offset |-> PyInt(0), value |-> PyFloat("1.0")],
      [time_offset |-> PyInt(10), value |-> PyFloat("0.0")]>>

\* C3: an Opacity OperationGroup directly after a SourceClip (and followed by no
\* second one) gives that clip's event exactly one effect whose
\* animated_params["Opacity"] is the two keyframes, in order
C3_OpacityKeyframes ==
    Returned =>
        \A i \in 1..(Len(comps.children) - 1) :
            ( /\ IsClip(comps.children[i])
              /\ comps.children[i + 1] \in {OpacityGroup(FALSE), OpacityGroup(TRUE)}
              /\ (i + 2 <= Len(comps.children) =>
                     comps.children[i + 2] \notin {OpacityGroup(FALSE), OpacityGroup(TRUE)}) )
            => LET e == timeline.items[ClipCount(comps.children, i)]
               IN  Cardinality({k \in DOMAIN e.effects :
                        /\ "Opacity" \in DOMAIN e.effects[k].animated_params
                        /\ e.effects[k].animated_params["Opacity"] = ExpectedOpacity}) = 1

(***************************************************************************)
(* main and parse_composition_mob applied to one document                  *)
(***************************************************************************)
\* a slot as the inspector projects it: the Components list lies under
\* Segment / Sequence
Slot(name, components) ==
    Branch(name, "TimelineMobSlot",
           <<Scalar("SlotID", PyInt(1)),
             Branch("Segment", "StrongRefProperty",
                    <<Branch("Sequence", "Sequence",
                             <<Branch("Components", "StrongRefVectorProperty", components)>>)>>)>>)

EmptySlot(name) == Branch(name, "TimelineMobSlot", <<Scalar("SlotID", PyInt(2))>>)

CompositionMob(name, slots) ==
    Branch(name, "CompositionMob",
           <<Scalar("Name", PyStr(<<"n">>)),
             Branch("Slots", "StrongRefVectorProperty", slots)>>)

TwoClips == <<Clip(PyInt(100), Absent, ""), Clip(PyInt(50), Absent, "")>>
UnknownSingle == <<Clip(PyInt(30), Absent, "")>>
NamedSingle == <<Clip(PyInt(40), Absent, "ClipA")>>

\* the composition of the two-clip scenario, its audio slot A1 already dropped
ScenarioMob == CompositionMob("Seq", <<Slot("V1", TwoClips)>>)
UnknownMob == CompositionMob("Wrapper", <<Slot("V1", UnknownSingle)>>)
NamedMob == CompositionMob("Named", <<Slot("V1", NamedSingle)>>)

MobPool ==
    { ScenarioMob, UnknownMob, NamedMob,
      CompositionMob("SkipFirst", <<EmptySlot("V1"), Slot("V2", NamedSingle)>>),
      CompositionMob("TwoSlots", <<Slot("V1", UnknownSingle), Slot("V2", TwoClips)>>),
      Branch("NoSlots", "CompositionMob", <<Scalar("Name", PyStr(<<"n">>))>>),
      Branch("Master", "MasterMob", <<Branch("Slots", "StrongRefVectorProperty",
                                             <<Slot("V1", NamedSingle)>>)>>) }

MaxMobs == 2

\* the document around a Mobs list; with nested = FALSE the inner "Header"
\* level is missing and the path to the Mobs list does not resolve
Document(nested, mobs) ==
    LET content == Branch("Content", "StrongRefProperty",
                          <<Branch("ContentStorage", "ContentStorage",
                                   <<Branch("Mobs", "StrongRefSetProperty", mobs)>>)>>)
    IN  Branch("Root", "Root",
               <<Branch("Header", "Header",
                        IF nested THEN <<Branch("Header", "Header", <<content>>)>>
                        ELSE <<content>>)>>)

Documents ==
    {Document(nested, mobs) : nested \in BOOLEAN, mobs \in SeqsUpTo(MobPool, MaxMobs)}

\* the CompositionMob nodes main iterates over (none when the path is missing)
CompMobs ==
    LET mobs_node == find_node_by_path(doc, path_to_mobs)
    IN  IF mobs_node = None THEN <<>> ELSE CompMobsOf(mobs_node.children)

InitMain ==
    /\ doc \in Documents
    /\ pcm = NotRun
    /\ out = NotRun
    /\ comps = None
    /\ timeline = NotRun
    /\ TreeIdle

ParseCompositionMob(i) ==
    /\ pcm' = [t |-> "call", node |-> CompMobs[i], result |-> parse_composition_mob(CompMobs[i])]
    /\ UNCHANGED <<doc, out, comps, timeline, treeVars>>

Main ==
    /\ out = NotRun
    /\ out' = main(doc)
    /\ UNCHANGED <<doc, pcm, comps, timeline, treeVars>>

NextMain ==
    \/ \E i \in DOMAIN CompMobs : ParseCompositionMob(i)
    \/ Main

SpecMain == InitMain /\ [][NextMain]_vars

\* C2: for the composition whose only remaining slot V1 holds, below it, a
\* Components node with two SourceClips of Length 100 and 50,
\* parse_composition_mob returns the events (1, 0, 100) and (2, 100, 50)
C2_TwoClipScenario ==
    (pcm.t = "call" /\ pcm.node = ScenarioMob) =>
        /\ pcm.result.t = "list"
        /\ Len(pcm.result.items) = 2
        /\ \A k \in 1..2 : pcm.result.items[k].event_number = k
        /\ pcm.result.items[1].start_time_frames = 0
        /\ pcm.result.items[1].duration_frames = 100
        /\ pcm.result.items[2].start_time_frames = 100
        /\ pcm.result.items[2].duration_frames = 50

MainRan == "kind" \in DOMAIN out

\* the Mobs list of the loaded document
MobsList == find_node_by_path(doc, path_to_mobs).children

\* C4: with the Mobs list holding the unknown-clip and the named-clip
\* composition, in either order, main prints the named-clip timeline
C4_NamedClipSelected ==
    ( /\ MainRan
      /\ find_node_by_path(doc, path_to_mobs) # None
      /\ (MobsList = <<UnknownMob, NamedMob>> \/ MobsList = <<NamedMob, UnknownMob>>) )
    => /\ out.kind = "timeline"
       /\ Len(out.events) = 1
       /\ out.events[1].name = "ClipA"
       /\ out.events[1].duration_frames = 40

\* C5: main never prints an empty timeline: it prints a timeline of at least
\* one event or one of its not-found errors
C5_NoEmptyTimeline ==
    MainRan =>
        \/ out.kind = "timeline" /\ Len(out.events) >= 1
        \/ out.kind = "error" /\ out.msg \in {"no Mobs list", "no CompositionMob", "no valid timeline"}

\* main ran over compositions and found none of them to parse into a valid timeline
C5_Witness ==
    /\ MainRan
    /\ Len(CompMobs) = 2
    /\ out.kind = "error"
    /\ out.msg = "no valid timeline"

(***************************************************************************)
(* The aaf2 object graph (the graph source).  A node is an AAFObject, a    *)
(* plain Property, a StrongRefProperty, a StrongRefVectorProperty or a     *)
(* StrongRefSetProperty; nodes are named by ids, "" is a null reference.   *)
(*   props    : what item.properties() yields, in the order of the source  *)
(*   target   : StrongRefProperty.value                                    *)
(*   elems    : the referenced objects of a vector or set, in source order *)
(*   keys     : the keys of a set, elems[i] being item.get(keys[i])        *)
(*   sortable : whether sorted(keys) succeeds (else TypeError)             *)
(*   mob, slot: SourceClip.mob and SourceClip.slot                         *)
(*   err      : reading the node raises: properties() of an object, len()  *)
(*              of a vector or set, .value of a plain property             *)
(***************************************************************************)
GNode(kind, name, class) ==
    [kind |-> kind, name |-> name, class |-> class, props |-> <<>>, target |-> "",
     elems |-> <<>>, keys |-> <<>>, sortable |-> TRUE, value |-> None,
     isClip |-> FALSE, mob |-> "", slot |-> "", err |-> FALSE]

GObject(name, class, props, err) ==
    [GNode("Object", name, class) EXCEPT !.props = props, !.err = err]
GSourceClip(props, mob, slot) ==
    [GNode("Object", "", "SourceClip") EXCEPT !.props = props, !.isClip = TRUE,
                                              !.mob = mob, !.slot = slot]
GScalar(name, value, err) ==
    [GNode("Scalar", name, "Property") EXCEPT !.value = value, !.err = err]
GStrongRef(name, target) ==
    [GNode("StrongRef", name, "StrongRefProperty") EXCEPT !.target = target]
GVector(name, elems, err) ==
    [GNode("Vector", name, "StrongRefVectorProperty") EXCEPT !.elems = elems, !.err = err]
\* a Python list of objects, such as list(f.content.compositionmobs())
GList(elems) == [GNode("List", "", "list") EXCEPT !.elems = elems]
GSet(name, keys, elems, sortable) ==
    [GNode("Set", name, "StrongRefSetProperty") EXCEPT !.keys = keys, !.elems = elems,
                                                       !.sortable = sortable]

\* None, which item.get(key) gives for a key the set does not hold
GNone == GNode("None", "", "NoneType")

PyBytes(cs) == [t |-> "bytes", b |-> cs]

\* One opened file.  Header -> Content -> ContentStorage -> Mobs {M1, M2};
\* CompMobs is the list [M1]; the composition M1 has the slots S1 and S2, S1 holds a Sequence with one
\* SourceClip, which refers to the master mob M2 and its slot S3.  M3 is a mob
\* that is in no collection when the file is opened.
\*   s1, s2, s3 : <<class, name>> of the three slots
\*   refs       : which back-references the clip resolves: "both", "mob", "none"
\*   bad        : the node whose reading raises, or ""
\*   sortable   : whether the keys of the Mobs set are mutually comparable
GraphOf(s1, s2, s3, refs, bad, sortable) ==
    [id \in {"Header", "Content", "CS", "Mobs", "CompMobs", "M1", "M1.Slots", "M1.Name", "S1",
             "S1.Segment", "S1.SlotID", "Seq", "Seq.Components", "Clip", "Clip.Length",
             "S2", "M2", "M2.Slots", "M2.MobID", "S3", "S3.SlotID", "M3", ""} |->
       CASE id = "Header"         -> GObject("", "Header", <<"Content">>, FALSE)
         [] id = ""               -> GNone
         [] id = "M3"             -> GObject("New", "MasterMob", <<>>, FALSE)
         [] id = "Content"        -> GStrongRef("Content", "CS")
         [] id = "CS"             -> GObject("", "ContentStorage", <<"Mobs">>, FALSE)
         [] id = "Mobs"           -> GSet("Mobs", <<2, 1>>, <<"M2", "M1">>, sortable)
         [] id = "CompMobs"       -> GList(<<"M1">>)
         [] id = "M1"             -> GObject("Seq", "CompositionMob", <<"M1.Slots", "M1.Name">>,
                                             bad = "M1")
         [] id = "M1.Slots"       -> GVector("Slots", <<"S1", "S2">>, bad = "M1.Slots")
         [] id = "M1.Name"        -> GScalar("Name", PyStr(<<"S", "e", "q">>), FALSE)
         [] id = "S1"             -> GObject(s1[2], s1[1], <<"S1.SlotID", "S1.Segment">>, FALSE)
         [] id = "S1.Segment"     -> GStrongRef("Segment", "Seq")
         [] id = "S1.SlotID"      -> GScalar("SlotID", PyInt(1), FALSE)
         [] id = "Seq"            -> GObject("", "Sequence", <<"Seq.Components">>, FALSE)
         [] id = "Seq.Components" -> GVector("Components", <<"Clip">>, FALSE)
         [] id = "Clip"           -> GSourceClip(<<"Clip.Length">>,
                                                 CASE refs = "none" -> ""
                                                   [] refs \in {"self", "selfboth"} -> "M1"
                                                   [] refs \in {"mob", "both"} -> "M2",
                                                 CASE refs = "both" -> "S3"
                                                   [] refs = "selfboth" -> "S1"
                                                   [] refs \in {"none", "mob", "self"} -> "")
         [] id = "Clip.Length"    -> GScalar("Length", PyInt(100), bad = "Clip.Length")
         [] id = "S2"             -> GObject(s2[2], s2[1], <<>>, FALSE)
         [] id = "M2"             -> GObject("ClipA", "MasterMob", <<"M2.Slots", "M2.MobID">>, FALSE)
         [] id = "M2.Slots"       -> GVector("Slots", <<"S3">>, FALSE)
         [] id = "M2.MobID"       -> GScalar("MobID", PyBytes(<<"u">>), FALSE)
         [] id = "S3"             -> GObject(s3[2], s3[1], <<"S3.SlotID">>, FALSE)
         [] id = "S3.SlotID"      -> GScalar("SlotID", PyInt(3), FALSE)]

SlotKinds == {<<"TimelineMobSlot", "A1">>, <<"TimelineMobSlot", "V1">>, <<"EventMobSlot", "A1">>}

\* the files: every naming of the three slots in a sound file whose clip
\* resolves both references; under one naming, every choice of the resolved
\* references and of the node that fails; and a file whose set keys do not sort
Graphs ==
    {GraphOf(s1, s2, s3, "both", "", TRUE) :
        s1 \in SlotKinds,
        s2 \in {<<"TimelineMobSlot", "Data">>, <<"TimelineMobSlot", "V2">>},
        s3 \in {<<"TimelineMobSlot", "a2">>, <<"TimelineMobSlot", "Data Track">>}}
    \cup
    {GraphOf(<<"TimelineMobSlot", "V1">>, <<"TimelineMobSlot", "Data">>,
             <<"TimelineMobSlot", "a2">>, refs, bad, TRUE) :
        refs \in {"both", "mob", "none"},
        bad \in {"", "M1", "M1.Slots", "Clip.Length"}}
    \cup
    {GraphOf(<<"TimelineMobSlot", "V1">>, <<"TimelineMobSlot", "Data">>,
             <<"TimelineMobSlot", "a2">>, "both", "", FALSE)}

\* str.lower() over the names of the graph
Lower(name) ==
    CASE name = "A1" -> "a1"
      [] name = "Data" -> "data"
      [] name = "Data Track" -> "data track"
      [] name = "V1" -> "v1"
      [] name = "V2" -> "v2"
      [] name = "Seq" -> "seq"
      [] name = "ClipA" -> "clipa"
      [] name = "Source Mob Ref" -> "source mob ref"
      [] name = "Source Slot Ref" -> "source slot ref"
      [] name = "a2" -> "a2"

\* the order of str on the property names of the graph (sorted(..., key=name))
NameOrder == <<"Components", "Content", "Length", "MobID", "Mobs", "Name", "Segment",
               "SlotID", "Slots", "StartTime">>
NameRank(name) == CHOOSE i \in DOMAIN NameOrder : NameOrder[i] = name

(***************************************************************************)
(* TreeItem (AAFInspector.py; AAFInspector-enhanced.py has the same code). *)
(* A TreeItem is addressed by its path of rows below the root item; its    *)
(* parentItem is the item at the path without the last row.                *)
(***************************************************************************)
\* the wrapped item: a node of the graph, or a DummyItem(name, target)
Item(id) == [dummy |-> "", id |-> id]
DummyItem(name, target) == [dummy |-> name, id |-> target]

\* TreeItem.__init__; properties holds the keys of self.properties.  gen tells
\* the objects apart that were ever stored at one row of one parent: the
\* first TreeItem created for the row has gen 1, one that replaces it gen 2
ItemRef(p) == [t |-> "item", path |-> p]

\* a constructor call that leaves index at its default
TreeItemDefaultIndex(item, parent, index) ==
    [parentItem |-> parent, item |-> item, children |-> {}, children_count |-> 0,
     properties |-> {}, loaded |-> FALSE, index |-> 0, references |-> <<>>, gen |-> 1]

\* parent is None or the reference ItemRef(p) to the TreeItem at path p
TreeItem(item, parent, index) ==
    [parentItem |-> parent, item |-> item, children |-> {}, children_count |-> 0,
     properties |-> {}, loaded |-> FALSE, index |-> index, references |-> <<>>, gen |-> 1]

IsPrefix(q, y) == Len(q) <= Len(y) /\ SubSeq(y, 1, Len(q)) = q

\* self.children[row] = t for the item at path p: a TreeItem there before is
\* replaced, with everything below it
PutChild(tr, p, row, t) ==
    LET q == Append(p, row)
        kept == {y \in DOMAIN tr : ~IsPrefix(q, y)}
    IN  [x \in kept \cup {q} |->
            IF x = q THEN (IF q \in DOMAIN tr THEN [t EXCEPT !.gen = tr[q].gen + 1] ELSE t)
            ELSE IF x = p THEN [tr[p] EXCEPT !.children = @ \cup {row}]
            ELSE tr[x]]

RECURSIVE extend(_, _, _)
extend(tr, p, items) ==
    IF items = <<>> THEN tr
    ELSE LET index == tr[p].children_count
             added == PutChild(tr, p, index, TreeItem(Head(items), ItemRef(p), index))
         IN  extend([added EXCEPT ![p].children_count = @ + 1], p, Tail(items))

class_name(item) == graph[item.id].class

name(item) ==
    IF item.dummy # "" THEN item.dummy
    ELSE IF graph[item.id].name # "" THEN graph[item.id].name
    ELSE class_name(item)

\* sorted(props, key=name): a stable insertion sort on the names
RECURSIVE InsertByName(_, _)
InsertByName(sorted, id) ==
    IF sorted = <<>> THEN <<id>>
    ELSE IF NameRank(graph[id].name) < NameRank(graph[Head(sorted)].name)
    THEN <<id>> \o sorted
    ELSE <<Head(sorted)>> \o InsertByName(Tail(sorted), id)

RECURSIVE SortedByName(_)
SortedByName(ids) ==
    IF ids = <<>> THEN <<>>
    ELSE InsertByName(SortedByName(SubSeq(ids, 1, Len(ids) - 1)), ids[Len(ids)])

\* sorted(keys) of integer keys
RECURSIVE InsertKey(_, _)
InsertKey(sorted, k) ==
    IF sorted = <<>> THEN <<k>>
    ELSE IF k < Head(sorted) THEN <<k>> \o sorted
    ELSE <<Head(sorted)>> \o InsertKey(Tail(sorted), k)

RECURSIVE SortedKeys(_)
SortedKeys(keys) ==
    IF keys = <<>> THEN <<>>
    ELSE InsertKey(SortedKeys(SubSeq(keys, 1, Len(keys) - 1)), keys[Len(keys)])

Items(ids) == [i \in DOMAIN ids |-> Item(ids[i])]

\* a setup that adds no reference to a SourceClip
BackRefsNone(g) == <<>>

\* the mob and slot references setup adds to a SourceClip
BackRefs(g) ==
    (IF g.mob # "" THEN <<DummyItem("Source Mob Ref", g.mob)>> ELSE <<>>)
    \o (IF g.slot # "" THEN <<DummyItem("Source Slot Ref", g.slot)>> ELSE <<>>)

\* the branch of setup that the kind of the item selects
SetupKind(tr, p, g) ==
    CASE g.kind = "List" -> extend(tr, p, Items(g.elems))
      [] g.kind = "Object" ->
            extend(tr, p,
                   (IF g.err THEN <<>> ELSE Items(SortedByName(g.props)))
                   \o (IF g.isClip THEN BackRefs(g) ELSE <<>>))
      [] g.kind = "StrongRef" ->
            IF g.target # "" THEN extend(tr, p, <<Item(g.target)>>) ELSE tr
      [] g.kind = "Vector" ->
            [tr EXCEPT ![p].children_count = IF g.err THEN 0 ELSE Len(g.elems)]
      [] g.kind = "Set" ->
            IF g.err
            THEN [tr EXCEPT ![p].children_count = 0, ![p].references = <<>>]
            ELSE [tr EXCEPT ![p].children_count = Len(g.elems),
                            ![p].references = IF g.sortable THEN SortedKeys(g.keys)
                                              ELSE g.keys]
      [] g.kind = "Scalar" ->
            [tr EXCEPT ![p].properties = @ \cup {"Value"}]
      [] g.kind = "None" -> tr

\* a setup whose early return for a DummyItem forgets self.loaded = True
SetupDoneDummyNotLoaded(tr, p) ==
    [tr EXCEPT ![p].properties = @ \cup {"Name", "Class"},
               ![p].loaded = tr[p].item.dummy = ""]

\* a setup that returns early, without self.loaded = True, for a list
SetupDoneListNotLoaded(tr, p) ==
    [tr EXCEPT ![p].properties = @ \cup {"Name", "Class"},
               ![p].loaded = tr[p].item.dummy # "" \/ graph[tr[p].item.id].kind # "List"]

\* the end of setup: properties['Name'], properties['Class'], loaded
SetupDone(tr, p) ==
    [tr EXCEPT ![p].properties = @ \cup {"Name", "Class"}, ![p].loaded = TRUE]

setup(tr, p) ==
    IF tr[p].loaded THEN tr
    ELSE IF tr[p].item.dummy # ""
    THEN SetupDone(extend(tr, p, <<Item(tr[p].item.id)>>), p)
    ELSE SetupDone(SetupKind(tr, p, graph[tr[p].item.id]), p)

\* a childCount that asks a set for its length anew
CountOfLive(tr, p) ==
    [tree |-> tr,
     result |-> IF tr[p].item.dummy = "" /\ graph[tr[p].item.id].kind = "Set"
                THEN Len(graph[tr[p].item.id].keys)
                ELSE tr[p].children_count]

\* return self.children_count, of the tree after setup
CountOf(tr, p) == [tree |-> tr, result |-> tr[p].children_count]

childCount(tr, p) == CountOf(setup(tr, p), p)

Found(p, row) == ItemRef(Append(p, row))

\* the key self.references[row] of a Python list: a negative row counts from the end
PyIndex(list, row) ==
    IF row >= 0 THEN list[row + 1] ELSE list[Len(list) + row + 1]

\* item.get(key) of a set: None ("") for a key the set does not hold
SetGet(g, key) ==
    IF \E i \in DOMAIN g.keys : g.keys[i] = key
    THEN g.elems[CHOOSE i \in DOMAIN g.keys : g.keys[i] = key]
    ELSE ""

\* a child that forgets the test "if row in self.children"
ChildNotCached(tr, p, row, g) ==
    IF tr[p].item.dummy = "" /\ g.kind = "Set"
    THEN IF row < Len(tr[p].references)
         THEN IF row < 0 - Len(tr[p].references)
              THEN [tree |-> tr, result |-> Raised]
              ELSE [tree |-> PutChild(tr, p, row,
                                      TreeItem(Item(SetGet(g, PyIndex(tr[p].references, row))), ItemRef(p), row)),
                    result |-> Found(p, row)]
         ELSE [tree |-> tr, result |-> None]
    ELSE IF tr[p].item.dummy = "" /\ g.kind = "Vector"
    THEN IF g.err THEN [tree |-> tr, result |-> Raised]
         ELSE IF 0 <= row /\ row < Len(g.elems)
         THEN [tree |-> PutChild(tr, p, row, TreeItem(Item(g.elems[row + 1]), ItemRef(p), row)),
               result |-> Found(p, row)]
         ELSE [tree |-> tr, result |-> None]
    ELSE IF row \in tr[p].children THEN [tree |-> tr, result |-> Found(p, row)]
    ELSE [tree |-> tr, result |-> None]

\* child(row) once setup has run
ChildOfLoaded(tr, p, row, g) ==
    IF row \in tr[p].children THEN [tree |-> tr, result |-> Found(p, row)]
    ELSE IF tr[p].item.dummy = "" /\ g.kind = "Set"
    THEN IF row < Len(tr[p].references)
         THEN IF row < 0 - Len(tr[p].references)
              THEN [tree |-> tr, result |-> Raised]
              ELSE [tree |-> PutChild(tr, p, row,
                                      TreeItem(Item(SetGet(g, PyIndex(tr[p].references, row))), ItemRef(p), row)),
                    result |-> Found(p, row)]
         ELSE [tree |-> tr, result |-> None]
    ELSE IF tr[p].item.dummy = "" /\ g.kind = "Vector"
    THEN IF g.err THEN [tree |-> tr, result |-> Raised]
         ELSE IF 0 <= row /\ row < Len(g.elems)
         THEN [tree |-> PutChild(tr, p, row, TreeItem(Item(g.elems[row + 1]), ItemRef(p), row)),
               result |-> Found(p, row)]
         ELSE [tree |-> tr, result |-> None]
    ELSE [tree |-> tr, result |-> None]

child(tr, p, row) == ChildOfLoaded(setup(tr, p), p, row, graph[tr[p].item.id])

(***************************************************************************)
(* Window._convert_node_to_dict and exportToJson (AAFInspector.py)         *)
(***************************************************************************)
EXCLUDED_NAMES == {"a1", "a2", "a3", "a4", "a5", "a6", "a7", "a8", "data"}

\* repr(bytes) as a str
BytesRepr(cs) == <<"b", "'">> \o cs \o <<"'">>

_serialize_json_value(value) ==
    IF value.t = "bytes" THEN PyStr(BytesRepr(value.b)) ELSE value

\* a test that forgets the DummyItem wrappers: it looks at the wrapped object
IsExcludedByTarget(item) ==
    graph[item.id].class = "TimelineMobSlot" /\ Lower(graph[item.id].name) \in EXCLUDED_NAMES

\* the test that makes _convert_node_to_dict return None for a node
IsExcluded(item) ==
    class_name(item) = "TimelineMobSlot" /\ Lower(name(item)) \in EXCLUDED_NAMES

\* a projector that forgets the test "Value" in tree_item.properties
NodeDataAlways(item, hasValue) ==
    [name |-> name(item), class |-> class_name(item),
     value |-> _serialize_json_value(graph[item.id].value)]

\* data = {"name": ..., "class": ...}, with "value" when the item has a Value
NodeData(item, hasValue) ==
    IF hasValue
    THEN [name |-> name(item), class |-> class_name(item),
          value |-> _serialize_json_value(graph[item.id].value)]
    ELSE [name |-> name(item), class |-> class_name(item)]

\* if children: data["children"] = children
WithChildren(data, children) ==
    IF children = <<>> THEN data ELSE DictSet(data, "children", children)

Converted(tr, data) == [tree |-> tr, doc |-> data, raised |-> FALSE]
ConvertRaised(tr) == [tree |-> tr, doc |-> None, raised |-> TRUE]

\* the depth at which Python stops a recursion (sys.getrecursionlimit(), 1000
\* frames in CPython), counted in nested calls of _convert_node_to_dict; no
\* acyclic file of the model is that deep
RecursionLimit == 15

RECURSIVE _convert_node_to_dict(_, _)
RECURSIVE ConvertChildren(_, _, _, _, _, _)

\* after child_dict = self._convert_node_to_dict(child)
AfterConvert(r, p, i, n, data, children) ==
    IF r.raised THEN ConvertRaised(r.tree)
    ELSE IF r.doc # None
    THEN ConvertChildren(r.tree, p, i + 1, n, data, Append(children, r.doc))
    ELSE ConvertChildren(r.tree, p, i + 1, n, data, children)

\* after child = tree_item.child(i)
AfterChild(c, p, i, n, data, children) ==
    IF c.result = Raised THEN ConvertRaised(c.tree)
    ELSE IF c.result = None THEN ConvertChildren(c.tree, p, i + 1, n, data, children)
    ELSE AfterConvert(_convert_node_to_dict(c.tree, c.result.path), p, i, n, data, children)

\* for i in range(n), n being tree_item.childCount() when the loop starts
ConvertChildren(tr, p, i, n, data, children) ==
    IF i >= n THEN Converted(tr, WithChildren(data, children))
    ELSE AfterChild(child(tr, p, i), p, i, n, data, children)

\* the loop over range(tree_item.childCount()), cc being what childCount returned
ConvertRange(cc, p, data) == ConvertChildren(cc.tree, p, 0, cc.result, data, <<>>)

\* _convert_node_to_dict once tree_item.setup() has run; only AAFInspector.py
\* has the exclusion test, the rest is the same code in both programs
ConvertLoaded(tr, p) ==
    IF app = "AAFInspector" /\ IsExcluded(tr[p].item) THEN Converted(tr, None)
    ELSE IF "Value" \in tr[p].properties /\ graph[tr[p].item.id].err THEN ConvertRaised(tr)
    ELSE ConvertRange(childCount(tr, p), p,
                      NodeData(tr[p].item, "Value" \in tr[p].properties))

\* each level of the walk is one more call of _convert_node_to_dict on
\* Python's stack, which raises RecursionError beyond the interpreter's limit
_convert_node_to_dict(tr, p) ==
    IF Len(p) >= RecursionLimit THEN ConvertRaised(tr)
    ELSE ConvertLoaded(setup(tr, p), p)

(***************************************************************************)
(* Worker.build_node and Worker._process_file                              *)
(* (AAFInspector-Extended-Batch.py)                                        *)
(***************************************************************************)
EXCLUDED_TRACK_NAMES == {"a1", "a2", "a3", "a4", "a5", "a6", "a7", "a8", "data track"}

Built(node) == [doc |-> node, raised |-> FALSE]
BuildRaised == [doc |-> None, raised |-> TRUE]

\* child_name = getattr(child_item, 'name', child_item.__class__.__name__)
ChildName(id) == IF graph[id].name # "" THEN graph[id].name ELSE graph[id].class

RECURSIVE build_node(_, _)
RECURSIVE BuildEach(_, _, _, _)
RECURSIVE BuildProps(_, _, _, _)

\* children.append(self.build_node(...)) for each object of ids that passes
\* the slot filter (filtered is TRUE only for the Slots of a CompositionMob)
BuildEachStep(b, ids, i, filtered, children) ==
    IF b.raised THEN [children |-> <<>>, raised |-> TRUE]
    ELSE BuildEach(ids, i + 1, filtered, Append(children, b.doc))

BuildEach(ids, i, filtered, children) ==
    IF i > Len(ids) THEN [children |-> children, raised |-> FALSE]
    ELSE IF filtered /\ Lower(graph[ids[i]].name) \in EXCLUDED_TRACK_NAMES
    THEN BuildEach(ids, i + 1, filtered, children)
    ELSE BuildEachStep(build_node(ids[i], ChildName(ids[i])), ids, i, filtered, children)

\* the end of one iteration of "for prop in item.properties()"
BuildPropsStep(r, props, i, is_comp_mob) ==
    IF r.raised THEN r ELSE BuildProps(props, i + 1, is_comp_mob, r.children)

BuildProps(props, i, is_comp_mob, children) ==
    IF i > Len(props) THEN [children |-> children, raised |-> FALSE]
    ELSE IF is_comp_mob /\ graph[props[i]].name = "Slots"
    THEN IF graph[props[i]].err THEN [children |-> <<>>, raised |-> TRUE]
         ELSE BuildPropsStep(BuildEach(graph[props[i]].elems, 1, TRUE, children),
                             props, i, is_comp_mob)
    ELSE BuildPropsStep(BuildEach(<<props[i]>>, 1, FALSE, children), props, i, is_comp_mob)

\* node['children'] = children, when there are any
BuildFinish(node, r) ==
    IF r.raised THEN BuildRaised ELSE Built(WithChildren(node, r.children))

build_node(id, node_name) ==
    LET g == graph[id]
        node == [name |-> node_name, class |-> g.class]
    IN  CASE g.kind = "Object" ->
               IF g.err THEN BuildRaised
               ELSE BuildFinish(node, BuildProps(g.props, 1, g.class = "CompositionMob", <<>>))
          [] g.kind \in {"Vector", "Set"} ->
               IF g.err THEN BuildRaised
               ELSE BuildFinish(node, BuildEach(g.elems, 1, FALSE, <<>>))
          [] g.kind = "StrongRef" ->
               IF g.target = "" THEN Built(node)
               ELSE BuildFinish(node, BuildEach(<<g.target>>, 1, FALSE, <<>>))
          [] g.kind = "Scalar" ->
               IF g.err THEN BuildRaised
               ELSE Built([name |-> node_name, class |-> g.class,
                           value |-> _serialize_json_value(g.value)])

\* the document _process_file writes, or its per-file error
ProcessResult(b) ==
    IF b.raised THEN [kind |-> "error"]
    ELSE [kind |-> "saved",
          doc |-> [name |-> "Root", class |-> "Root", children |-> <<b.doc>>]]

_process_file == ProcessResult(build_node("Header", "Header"))

(***************************************************************************)
(* The inspector window on one opened file (AAFModel over the root item,   *)
(* driven by the view, and exportToJson), and the batch worker on the file *)
(***************************************************************************)
MaxSteps == 3
MaxExports == 2

\* root_data of loadAafFile: f.content, or the list of composition mobs
Roots == {"CS", "CompMobs"}

\* AAFModel.__init__: the root item
RootItem(root) == (<<>> :> TreeItem(Item(root), None, 0))

\* the rows a caller may ask for: every row of the largest collection of the
\* graph and the rows next to them on both sides
MaxLen == Max({Len(graph[id].props) + Len(graph[id].elems) : id \in DOMAIN graph})
Rows == (0 - MaxLen - 1)..MaxLen

\* the rows the view asks AAFModel.index for: the rows of the largest
\* collection and one row on each side
ViewRows == (0 - 1)..MaxLen

ParseIdle ==
    /\ comps = None
    /\ timeline = NotRun
    /\ doc = None
    /\ pcm = NotRun
    /\ out = NotRun

\* the two inspectors
Apps == {"AAFInspector", "AAFInspector-enhanced"}

Init ==
    /\ app \in Apps
    /\ graph \in Graphs
    /\ \E root \in Roots : tree = RootItem(root)
    /\ last = NotRun
    /\ exports = <<>>
    /\ window = NotRun
    /\ steps = 0
    /\ batch = NotRun
    /\ worker = NotRun
    /\ trim = NotRun
    /\ ParseIdle

\* AAFModel.rowCount on the item at p
RowCount(p) ==
    /\ steps < MaxSteps
    /\ tree' = childCount(tree, p).tree
    /\ steps' = steps + 1
    /\ UNCHANGED <<app, graph, last, exports, batch, parseVars, window, worker, trim>>

\* QAbstractItemModel.hasIndex, cc being what rowCount(parent) returned
hasIndex(row, cc) == 0 <= row /\ row < cc.result

\* AAFModel.index once rowCount has run for hasIndex
IndexCounted(cc, p, row) == IF hasIndex(row, cc) THEN child(cc.tree, p, row).tree ELSE cc.tree

\* a QModelIndex: invalid, or createIndex(row, column, item)
InvalidIndex == [valid |-> FALSE]
createIndex(row, column, ref) == [valid |-> TRUE, row |-> row, column |-> column, ptr |-> ref.path]

\* AAFModel.getItem
getItem(index) == IF index.valid THEN index.ptr ELSE <<>>

\* what AAFModel.index returns once parentItem.child(row) returned c
index_of_child(c, row, column) ==
    IF c.result = None THEN InvalidIndex ELSE createIndex(row, column, c.result)

\* AAFModel.parent(index) over the tree tr
parent_of_index(tr, index) ==
    IF ~index.valid THEN InvalidIndex
    ELSE IF tr[getItem(index)].parentItem = None
              \/ tr[getItem(index)].parentItem = ItemRef(<<>>)
    THEN InvalidIndex
    ELSE createIndex(tr[tr[getItem(index)].parentItem.path].index, 0,
                     tr[getItem(index)].parentItem)

\* AAFModel.index(row, column, parent) on the item at p
Index(p, row) ==
    /\ steps < MaxSteps
    /\ tree' = IndexCounted(childCount(tree, p), p, row)
    /\ steps' = steps + 1
    /\ UNCHANGED <<app, graph, last, exports, batch, parseVars, window, worker, trim>>

\* what exportToJson ends with: the document written, or the error dialog
ExportResult(r) ==
    IF r.raised THEN [kind |-> "failed"] ELSE [kind |-> "written", doc |-> r.doc]

\* Window.exportToJson
ExportToJson ==
    /\ Len(exports) < MaxExports
    /\ tree' = _convert_node_to_dict(tree, <<>>).tree
    /\ exports' = Append(exports, ExportResult(_convert_node_to_dict(tree, <<>>)))
    /\ UNCHANGED <<app, graph, last, steps, batch, parseVars, window, worker, trim>>

\* Worker._process_file on the same file
ProcessFile ==
    /\ batch = NotRun
    /\ worker = NotRun
    /\ trim = NotRun
    /\ batch' = _process_file
    /\ UNCHANGED <<app, graph, tree, last, exports, steps, parseVars, window, worker, trim>>

Next ==
    \/ \E p \in DOMAIN tree : RowCount(p)
    \/ \E p \in DOMAIN tree, row \in ViewRows : Index(p, row)
    \/ ExportToJson
    \/ ProcessFile

Spec == Init /\ [][Next]_vars

(***************************************************************************)
(* The exported documents                                                  *)
(***************************************************************************)
RECURSIVE Expand(_, _)
RECURSIVE ExpandRows(_, _, _, _)

ExpandChild(c, p, i, n) ==
    IF c.result = None \/ c.result = Raised THEN ExpandRows(c.tree, p, i + 1, n)
    ELSE ExpandRows(Expand(c.tree, c.result.path), p, i + 1, n)

ExpandRows(tr, p, i, n) ==
    IF i >= n THEN tr ELSE ExpandChild(child(tr, p, i), p, i, n)

ExpandCounted(cc, p) == ExpandRows(cc.tree, p, 0, cc.result)

\* the whole tree below the item at p: every item childCount and child give
Expand(tr, p) == ExpandCounted(childCount(tr, p), p)

\* the names from the root item down to the item at p (the names of the
\* siblings differ in every item of these files, so this names the item)
NamePath(tr, p) == [k \in 1..(Len(p) + 1) |-> name(tr[SubSeq(p, 1, k - 1)].item)]

\* the item at q is a TimelineMobSlot whose lower-cased name is excluded
ExcludedAt(tr, q) ==
    /\ class_name(tr[q].item) = "TimelineMobSlot"
    /\ Lower(name(tr[q].item)) \in {"a1", "a2", "a3", "a4", "a5", "a6", "a7", "a8", "data"}

\* neither the item at p nor any of its ancestors is excluded
KeptAt(tr, p) == \A k \in 0..Len(p) : ~ExcludedAt(tr, SubSeq(p, 1, k))

KeptPaths(tr) == {NamePath(tr, p) : p \in {q \in DOMAIN tr : KeptAt(tr, q)}}

RECURSIVE DocPathsFrom(_, _)
DocPathsFrom(node, above) ==
    {Append(above, node.name)}
    \cup (IF "children" \in DOMAIN node
          THEN UNION {DocPathsFrom(node.children[i], Append(above, node.name)) :
                         i \in DOMAIN node.children}
          ELSE {})

\* the names from the root down to every node of a document
DocPaths(d) == IF d = None THEN {} ELSE DocPathsFrom(d, <<>>)

Written == {i \in DOMAIN exports : exports[i].kind = "written"}

\* C6: the nodes of a document exportToJson of AAFInspector.py writes are
\* exactly the tree items that are not, and lie below no, TimelineMobSlot
\* whose lower-cased name is in the exclusion set: nothing else is left out,
\* nothing is added
C6_ExcludedSubtreesOnly ==
    app = "AAFInspector" =>
        \A i \in Written : DocPaths(exports[i].doc) = KeptPaths(Expand(tree, <<>>))

\* an export left out a slot that lies below kept items and kept an item
\* next to it
C6_Witness ==
    /\ app = "AAFInspector"
    /\ Written # {}
    /\ \E p \in DOMAIN Expand(tree, <<>>), r \in Rows :
          /\ Len(p) >= 2
          /\ ExcludedAt(Expand(tree, <<>>), p)
          /\ KeptAt(Expand(tree, <<>>), SubSeq(p, 1, Len(p) - 1))
          /\ Append(SubSeq(p, 1, Len(p) - 1), r) \in DOMAIN Expand(tree, <<>>)
          /\ KeptAt(Expand(tree, <<>>), Append(SubSeq(p, 1, Len(p) - 1), r))
          /\ NamePath(Expand(tree, <<>>), Append(SubSeq(p, 1, Len(p) - 1), r))
                \in DocPaths(exports[1].doc)

RECURSIVE ValueOrChildren(_)
\* no node of the document has both a value and a non-empty list of children
ValueOrChildren(node) ==
    /\ ~("value" \in DOMAIN node /\ "children" \in DOMAIN node /\ node.children # <<>>)
    /\ "children" \in DOMAIN node =>
          \A i \in DOMAIN node.children : ValueOrChildren(node.children[i])

RECURSIVE HasNode(_, _)
\* some node of the document has the field
HasNode(node, field) ==
    \/ field \in DOMAIN node
    \/ /\ "children" \in DOMAIN node
       /\ \E i \in DOMAIN node.children : HasNode(node.children[i], field)

\* the batch worker saved a document for the file
Saved == "kind" \in DOMAIN batch /\ batch.kind = "saved"

\* C7: in the documents of the projectors (exportToJson of either inspector,
\* the batch worker) no node carries a value together with a non-empty list
\* of children
C7_ValueOrChildren ==
    /\ \A i \in Written : exports[i].doc # None => ValueOrChildren(exports[i].doc)
    /\ Saved => ValueOrChildren(batch.doc)

\* the enhanced inspector and the batch worker wrote a document that has
\* nodes with a value and nodes with children
C7_Witness ==
    /\ app = "AAFInspector-enhanced"
    /\ Written # {}
    /\ HasNode(exports[1].doc, "value")
    /\ HasNode(exports[1].doc, "children")
    /\ Saved
    /\ HasNode(batch.doc, "value")
    /\ HasNode(batch.doc, "children")

\* C8: two exports of the same file end the same way: with equal documents
C8_ExportTwice ==
    Len(exports) >= 2 => exports[1] = exports[2]

\* the view asked for rows, then the file was exported twice
C8_Witness ==
    /\ Len(exports) = 2
    /\ steps >= 1
    /\ exports[2].kind = "written"
    /\ HasNode(exports[2].doc, "children")

\* the TreeItems over an AAFObject whose properties() can be read
ObjectItems ==
    {p \in DOMAIN tree : /\ tree[p].item.dummy = ""
                         /\ graph[tree[p].item.id].kind = "Object"
                         /\ ~graph[tree[p].item.id].err}

\* the back-references a SourceClip resolves
RefCount(g) ==
    IF g.isClip THEN (IF g.mob # "" THEN 1 ELSE 0) + (IF g.slot # "" THEN 1 ELSE 0) ELSE 0

\* C9: childCount of a TreeItem over an AAFObject is the number of its
\* properties, plus one for each of the mob and slot references a SourceClip
\* resolves
C9_ChildCountOfObject ==
    \A p \in ObjectItems :
        childCount(tree, p).result
            = Len(graph[tree[p].item.id].props) + RefCount(graph[tree[p].item.id])

\* a SourceClip with one property and both references has been set up
C9_Witness ==
    \E p \in ObjectItems :
        /\ tree[p].loaded
        /\ graph[tree[p].item.id].isClip
        /\ RefCount(graph[tree[p].item.id]) = 2
        /\ tree[p].children_count = Len(graph[tree[p].item.id].props) + 2

\* C9 as the specification words it: the count is the number of properties
\* for every AAFObject, a SourceClip with back-references included
C9_AsWritten ==
    \A p \in ObjectItems : childCount(tree, p).result = Len(graph[tree[p].item.id].props)

(***************************************************************************)
(* TreeItem.childCount and TreeItem.child called on the items of a tree,   *)
(* before and after an export has walked it                                *)
(***************************************************************************)
MaxCalls == 2

\* the files whose tree is asked: one naming of the slots, the composition
\* readable or not, the keys of the Mobs set comparable or not
ChildGraphs ==
    {GraphOf(<<"TimelineMobSlot", "V1">>, <<"TimelineMobSlot", "Data">>,
             <<"TimelineMobSlot", "a2">>, "both", bad, sortable) :
        bad \in {"", "M1"}, sortable \in BOOLEAN}

\* TreeItem is the same code in both inspectors: AAFInspector.py runs here
InitChild ==
    /\ app = "AAFInspector"
    /\ graph \in ChildGraphs
    /\ \E root \in Roots : tree = RootItem(root)
    /\ last = NotRun
    /\ exports = <<>>
    /\ window = NotRun
    /\ steps = 0
    /\ batch = NotRun
    /\ worker = NotRun
    /\ trim = NotRun
    /\ ParseIdle

\* the call and what it returned
Called(call, p, row, r) ==
    /\ steps < MaxCalls
    /\ tree' = r.tree
    /\ last' = [t |-> call, path |-> p, row |-> row, result |-> r.result]
    /\ steps' = steps + 1
    /\ UNCHANGED <<app, graph, exports, batch, parseVars, window, worker, trim>>

\* TreeItem.childCount() of the item at p
ChildCount(p) == Called("childCount", p, 0, childCount(tree, p))

\* TreeItem.child(row) of the item at p
Child(p, row) == Called("child", p, row, child(tree, p, row))

\* one export, which walks the whole tree
Walk == exports = <<>> /\ ExportToJson

NextChild ==
    \/ \E p \in DOMAIN tree : ChildCount(p)
    \/ \E p \in DOMAIN tree, row \in Rows : Child(p, row)
    \/ Walk

SpecChild == InitChild /\ [][NextChild]_vars

\* the last call was child(row) with a row outside 0..childCount()-1
OutOfRange ==
    /\ last.t = "child"
    /\ last.row < 0 \/ last.row >= tree[last.path].children_count

\* C10: child(row) with a row outside 0..childCount()-1 returns None: it
\* does not raise and leaves no TreeItem cached at that row
C10_OutOfRangeIsNone ==
    OutOfRange =>
        /\ last.result = None
        /\ Append(last.path, last.row) \notin DOMAIN tree

\* the TreeItems a collection (vector or set) holds at rows of its range
CollectionChildren ==
    {p \in DOMAIN tree :
        /\ Len(p) > 0
        /\ tree[SubSeq(p, 1, Len(p) - 1)].item.dummy = ""
        /\ graph[tree[SubSeq(p, 1, Len(p) - 1)].item.id].kind \in {"Vector", "Set"}
        /\ p[Len(p)] \in 0..(tree[SubSeq(p, 1, Len(p) - 1)].children_count - 1)}

\* C11: the TreeItem at a row is the first one created for that row: no call
\* of childCount or child, and no walk, replaces a child by another TreeItem,
\* so child(r) returns the same object every time
C11_SameChild ==
    /\ \A p \in DOMAIN tree : tree[p].gen = 1
    /\ last.t = "child" /\ last.result \notin {None, Raised} =>
          /\ last.result.path = Append(last.path, last.row)
          /\ last.result.path \in DOMAIN tree

\* child(r) was called on a collection for a row whose TreeItem an export
\* walk had created and set up before
C11_Witness ==
    /\ exports # <<>>
    /\ last.t = "child"
    /\ last.result \notin {None, Raised}
    /\ last.result.path \in CollectionChildren
    /\ tree[last.result.path].loaded

\* setup has run on the item at p (it ends by filling properties)
Materialized(p) == tree[p].properties # {}

\* the item at p is a vector or a set, whose children child() creates
IsCollection(p) ==
    tree[p].item.dummy = "" /\ graph[tree[p].item.id].kind \in {"Vector", "Set"}

InitSnapshot ==
    /\ app = "AAFInspector"
    /\ graph \in ChildGraphs
    /\ tree = childCount(RootItem("CS"), <<>>).tree
    /\ last = NotRun
    /\ exports = <<>>
    /\ window = NotRun
    /\ steps = 0
    /\ batch = NotRun
    /\ worker = NotRun
    /\ trim = NotRun
    /\ ParseIdle

\* a sequence without its i-th element
RemoveAt(seq, i) == SubSeq(seq, 1, i - 1) \o SubSeq(seq, i + 1, Len(seq))

\* the set after one key was removed, or the mob M3 was inserted under a
\* key below or above the keys it holds, at the front or at the back of
\* its enumeration
Mutations(g) ==
    {[g EXCEPT !.keys = RemoveAt(g.keys, i), !.elems = RemoveAt(g.elems, i)] : i \in DOMAIN g.keys}
    \cup {[g EXCEPT !.keys = <<k>> \o g.keys, !.elems = <<"M3">> \o g.elems] :
             k \in {Min(Range(g.keys)) - 1, Max(Range(g.keys)) + 1}}
    \cup {[g EXCEPT !.keys = Append(g.keys, k), !.elems = Append(g.elems, "M3")] :
             k \in {Min(Range(g.keys)) - 1, Max(Range(g.keys)) + 1}}

\* the backing collection of the Mobs property is changed, once
Mutate ==
    /\ graph \in ChildGraphs
    /\ \E m \in Mutations(graph["Mobs"]) : graph' = [graph EXCEPT !["Mobs"] = m]
    /\ UNCHANGED <<app, tree, last, exports, steps, batch, parseVars, window, worker, trim>>

NextSnapshot ==
    \/ \E p \in DOMAIN tree : ChildCount(p)
    \/ \E p \in DOMAIN tree, row \in Rows : Child(p, row)
    \/ Mutate

SpecSnapshot == InitSnapshot /\ [][NextSnapshot]_vars

\* the TreeItems over a set
SetItems == {p \in DOMAIN tree : tree[p].item.dummy = "" /\ graph[tree[p].item.id].kind = "Set"}

\* the keys in ascending order
Ascending(keys) ==
    CHOOSE s \in [DOMAIN keys -> Range(keys)] :
        /\ Range(s) = Range(keys)
        /\ \A i, j \in DOMAIN s : i < j => s[i] < s[j]

\* the order setup is to capture: sorted when the keys compare, else as enumerated
KeyOrder(g) == IF g.sortable THEN Ascending(g.keys) ELSE g.keys

\* C13: a TreeItem over a set captures count and keys (sorted, or in source
\* order when they do not compare) when it is first materialized, and no
\* later change of the collection changes them: childCount returns the
\* captured count and child(r) gives the object of the r-th captured key
C13_SetSnapshot ==
    [][\A p \in SetItems :
          /\ ~Materialized(p) /\ tree'[p].properties # {} =>
                /\ tree'[p].references = KeyOrder(graph[tree[p].item.id])
                /\ tree'[p].children_count = Len(graph[tree[p].item.id].keys)
          /\ Materialized(p) =>
                /\ tree'[p].references = tree[p].references
                /\ tree'[p].children_count = tree[p].children_count
                /\ last' # last /\ last'.path = p /\ last'.t = "childCount" =>
                      last'.result = Len(tree[p].references)
                /\ last' # last /\ last'.path = p /\ last'.t = "child"
                         /\ last'.row \in 0..(Len(tree[p].references) - 1) =>
                      /\ last'.result = Found(p, last'.row)
                      /\ tree[p].references[last'.row + 1] \in Range(graph[tree[p].item.id].keys) =>
                            tree'[Append(p, last'.row)].item
                               = Item(SetGet(graph[tree[p].item.id],
                                             tree[p].references[last'.row + 1]))]_vars

\* after a key was removed from the collection, child(r) was asked for the
\* row of that key: the captured list still holds the key, the set gives None
C13_Witness ==
    /\ graph \notin ChildGraphs
    /\ last.t = "child"
    /\ last.path \in SetItems
    /\ Len(tree[last.path].references) = Len(graph["Mobs"].keys) + 1
    /\ last.result = Found(last.path, last.row)
    /\ tree[last.result.path].item = Item("")

\* the last call was child(row) and returned a TreeItem
ChildReturned == last.t = "child" /\ last.result \notin {None, Raised}

C15_WalkSurvivesErrors ==
    /\ \A i \in DOMAIN exports : exports[i].kind = "written"
    /\ batch = NotRun \/ Saved

\* C20: every event parse_components produces has a duration_frames of at
\* least 0, whatever the "Length" of its SourceClip (negative lengths included)
C20_DurationNotNegative ==
    Returned =>
        \A i \in DOMAIN timeline.items : timeline.items[i].duration_frames >= 0

(***************************************************************************)
(* The batch converter: MainWindow.start_conversion creates a Worker over  *)
(* the selected files and starts its thread; Worker.run loops over the     *)
(* files while MainWindow.closeEvent may call Worker.stop from the GUI     *)
(* thread.  Worker.run advances between its reads of self.is_running.      *)
(***************************************************************************)
MaxFiles == 2

\* the files selected: sound ones and ones in which a read raises
BatchFiles ==
    {GraphOf(<<"TimelineMobSlot", "V1">>, <<"TimelineMobSlot", "Data">>,
             <<"TimelineMobSlot", "a2">>, refs, bad, TRUE) :
        refs \in {"both", "none"},
        bad \in {"", "M1", "M1.Slots", "Clip.Length"}}

\* Worker.__init__ assigns file_list, output_dir and the two modules, and no
\* is_running; the other fields are the position of run() and what it emitted
Worker(file_list) ==
    [file_list |-> file_list, is_running |-> "unset", pc |-> "loop", i |-> 0,
     started |-> 0, results |-> <<>>, progress |-> <<>>, error |-> FALSE]

\* a loop that does not consult the flag
IsRunningIgnored(w) == "True"

\* self.is_running as run() reads it: AttributeError while it was never assigned
IsRunning(w) == w.is_running

\* except Exception: self.error.emit(...); finally: self.finished.emit()
RunRaised(w) == [w EXCEPT !.pc = "finished", !.error = TRUE]

\* the head of the loop over enumerate(self.file_list)
RunLoop(w) ==
    IF w.i >= Len(w.file_list) THEN [w EXCEPT !.pc = "end"]
    ELSE CASE IsRunning(w) = "unset" -> RunRaised(w)
           [] IsRunning(w) = "False" ->
                [w EXCEPT !.pc = "end", !.progress = Append(@, "Process cancelled.")]
           [] IsRunning(w) = "True" ->
                [w EXCEPT !.pc = "file", !.started = @ + 1,
                          !.progress = Append(@, "Processing file")]

\* self._process_file(aaf_path) returned
RunFile(w, r) ==
    [w EXCEPT !.pc = "loop", !.i = @ + 1, !.results = Append(@, r.kind),
              !.progress = Append(@, IF r.kind = "saved" THEN "Successfully saved" ELSE "ERROR converting")]

\* after the loop: if self.is_running: "Batch conversion complete."
RunEnd(w) ==
    CASE IsRunning(w) = "unset" -> RunRaised(w)
      [] IsRunning(w) = "False" -> [w EXCEPT !.pc = "finished"]
      [] IsRunning(w) = "True" ->
           [w EXCEPT !.pc = "finished", !.progress = Append(@, "Batch conversion complete.")]

InitBatch ==
    /\ app = "AAFInspector-Extended-Batch"
    /\ graph = <<>>
    /\ tree = <<>>
    /\ last = NotRun
    /\ exports = <<>>
    /\ window = NotRun
    /\ steps = 0
    /\ batch = NotRun
    /\ \E n \in 1..MaxFiles : \E fl \in [1..n -> BatchFiles] : worker = Worker(fl)
    /\ trim = NotRun
    /\ ParseIdle

\* Worker.run, up to its next read of self.is_running or the end of a file
Run ==
    /\ worker.pc # "finished"
    /\ CASE worker.pc = "loop" ->
              /\ worker' = RunLoop(worker)
              /\ graph' = IF worker'.pc = "file" THEN worker.file_list[worker.i + 1] ELSE graph
              /\ batch' = batch
         [] worker.pc = "file" ->
              /\ batch' = _process_file
              /\ worker' = RunFile(worker, batch')
              /\ graph' = graph
         [] worker.pc = "end" ->
              /\ worker' = RunEnd(worker)
              /\ UNCHANGED <<graph, batch>>
    /\ UNCHANGED <<app, tree, last, exports, steps, trim, parseVars, window>>

\* Worker.stop, called by MainWindow.closeEvent while the thread runs
Stop ==
    /\ worker.pc # "finished"
    /\ worker' = [worker EXCEPT !.is_running = "False"]
    /\ UNCHANGED <<app, graph, tree, last, exports, steps, batch, trim, parseVars, window>>

NextBatch ==
    \/ Run
    \/ Stop

SpecBatch == InitBatch /\ [][NextBatch]_vars

StopCalled == worker.is_running = "False"

\* C17: when Worker.run has finished and no cancellation was requested, every
\* file of the list has exactly one result, a written document or a per-file
\* error
C17_EveryFileProcessed ==
    (worker.pc = "finished" /\ ~StopCalled) =>
        Len(worker.results) = Len(worker.file_list)

MaxLines == 2
MaxTags == 2

Whitespace == {" "}

\* str.strip()
RECURSIVE lstrip(_)
lstrip(cs) == IF cs # <<>> /\ Head(cs) \in Whitespace THEN lstrip(Tail(cs)) ELSE cs

RECURSIVE rstrip(_)
rstrip(cs) ==
    IF cs # <<>> /\ cs[Len(cs)] \in Whitespace THEN rstrip(SubSeq(cs, 1, Len(cs) - 1)) ELSE cs

strip(cs) == rstrip(lstrip(cs))

PySet(S) == [t |-> "set", elems |-> S]
TextFile(lines) == [t |-> "file", lines |-> lines]

\* set(line.strip() for line in f if line.strip()); set() when open() raises
load_exclusion_list(file) ==
    IF file = Raised THEN PySet({})
    ELSE PySet({PyStr(strip(file.lines[i])) :
                   i \in {j \in DOMAIN file.lines : strip(file.lines[j]) # <<>>}})

\* for c in children: if c.get("name") == "Name": child_name = c.get("value", "")
RECURSIVE ChildNameFrom(_, _)
ChildNameFrom(children, k) ==
    IF k = 0 THEN PyStr(<<>>)
    ELSE IF DictGet(children[k], "name", None) = PyStr(<<"N", "a", "m", "e">>)
         THEN DictGet(children[k], "value", PyStr(<<>>))
         ELSE ChildNameFrom(children, k - 1)

\* target_name = name or child_name, with name = tv.get("name") or ""
TargetName(tv) ==
    LET tv_name == IF Truthy(DictGet(tv, "name", None)) THEN tv.name ELSE PyStr(<<>>)
        children == DictGet(tv, "children", <<>>)
    IN  IF Truthy(tv_name) THEN tv_name ELSE ChildNameFrom(children, Len(children))

KeepTag(tv, excluded_names) == TargetName(tv) \notin excluded_names.elems

filter_taggedvalues(tagged_values, excluded_names) ==
    PyList(SelectSeq(tagged_values, LAMBDA tv : KeepTag(tv, excluded_names)))

\* the lines of the exclusion file
LinePool == {<<"A", "b">>, <<" ", "a", "b", " ">>, <<"C">>, <<" ">>}

ExcludeFiles == {TextFile(ls) : ls \in SeqsUpTo(LinePool, MaxLines)} \cup {Raised}

Tagged(cs) == [name |-> PyStr(cs), class |-> PyStr(<<"T">>)]
TaggedByChild(cs) ==
    [name |-> None, class |-> PyStr(<<"T">>),
     children |-> <<[name |-> PyStr(<<"N", "a", "m", "e">>), value |-> PyStr(cs)]>>]

TagPool ==
    {Tagged(<<"A", "b">>), Tagged(<<"a", "b">>), Tagged(<<"C">>), Tagged(<<"c", "d">>),
     TaggedByChild(<<"A", "B">>)}

InitTrim ==
    /\ \E file \in ExcludeFiles, tvs \in SeqsUpTo(TagPool, MaxTags) :
          trim = [exclude |-> file, tagged_values |-> tvs,
                  excluded_names |-> NotRun, filtered |-> NotRun]
    /\ worker = NotRun
    /\ app = ""
    /\ graph = <<>>
    /\ tree = <<>>
    /\ last = NotRun
    /\ exports = <<>>
    /\ window = NotRun
    /\ steps = 0
    /\ batch = NotRun
    /\ ParseIdle

\* main: excluded_taggedvalues = load_exclusion_list(args.exclude)
LoadExclusionList ==
    /\ trim.excluded_names = NotRun
    /\ trim' = [trim EXCEPT !.excluded_names = load_exclusion_list(trim.exclude)]
    /\ UNCHANGED <<app, graph, tree, last, exports, steps, batch, worker, parseVars, window>>

\* process_json: filter_taggedvalues(tags, excluded_taggedvalues)
FilterTaggedValues ==
    /\ trim.excluded_names # NotRun
    /\ trim.filtered = NotRun
    /\ trim' = [trim EXCEPT !.filtered = filter_taggedvalues(trim.tagged_values, trim.excluded_names)]
    /\ UNCHANGED <<app, graph, tree, last, exports, steps, batch, worker, parseVars, window>>

NextTrim ==
    \/ LoadExclusionList
    \/ FilterTaggedValues

SpecTrim == InitTrim /\ [][NextTrim]_vars

\* str.lower() over the letters of the labels
LowerChar(c) ==
    CASE c = "A" -> "a"
      [] c = "B" -> "b"
      [] c = "C" -> "c"
      [] OTHER -> c

LowerStr(x) == [i \in DOMAIN x.s |-> LowerChar(x.s[i])]

\* the tagged value's name and a listed label are the same up to letter case
ListedIgnoringCase(tv, excluded_names) ==
    \E label \in excluded_names.elems : LowerStr(TargetName(tv)) = LowerStr(label)

\* C19: a tagged value whose name differs from a label of the loaded exclusion
\* set at most in letter case is not in what filter_taggedvalues returns
C19_CaseInsensitive ==
    trim # NotRun /\ trim.filtered # NotRun =>
        \A i \in DOMAIN trim.tagged_values :
            ListedIgnoringCase(trim.tagged_values[i], trim.excluded_names) =>
                \A j \in DOMAIN trim.filtered.items :
                    trim.filtered.items[j] # trim.tagged_values[i]

(***************************************************************************)
(* The inspector on files whose SourceClip names the composition mob it    *)
(* lies in (and the slot it lies in): following the injected references    *)
(* leads back to an object on the current path.                            *)
(***************************************************************************)
CycleGraphs ==
    {GraphOf(<<"TimelineMobSlot", "V1">>, <<"TimelineMobSlot", "Data">>,
             <<"TimelineMobSlot", "a2">>, refs, "", TRUE) :
        refs \in {"self", "selfboth", "both"}}

InitCycle ==
    /\ app \in Apps
    /\ graph \in CycleGraphs
    /\ \E root \in Roots : tree = RootItem(root)
    /\ last = NotRun
    /\ exports = <<>>
    /\ window = NotRun
    /\ steps = 0
    /\ batch = NotRun
    /\ worker = NotRun
    /\ trim = NotRun
    /\ ParseIdle

SpecCycle == InitCycle /\ [][Next]_vars

\* C16: every full projection walk from the model root ends with a document,
\* also on a file in which a SourceClip's references lead back onto the path
C16_WalkTerminates ==
    \A i \in DOMAIN exports : "doc" \in DOMAIN exports[i]

(***************************************************************************)
(* The selection of main and the slot scan of parse_composition_mob,       *)
(* stated over the loaded document                                         *)
(***************************************************************************)
\* the children of the composition's "Slots" child (none without such a child)
SlotsOf(mob) ==
    LET i == IF "children" \in DOMAIN mob THEN FirstNamed(mob.children, "Slots") ELSE 0
    IN  IF i = 0 \/ "children" \notin DOMAIN mob.children[i] THEN <<>>
        ELSE mob.children[i].children

\* the events of one slot: parse_components of the Components node below it
SlotEvents(slot) ==
    LET components_node == find_components_recursively(slot)
    IN  IF components_node = None THEN <<>> ELSE parse_components(components_node).items

\* the slots of the composition that yield at least one event
FruitfulSlots(mob) == {k \in DOMAIN SlotsOf(mob) : SlotEvents(SlotsOf(mob)[k]) # <<>>}

\* the timeline of the composition: the events of its first fruitful slot
FirstSlotEvents(mob) ==
    IF FruitfulSlots(mob) = {} THEN <<>>
    ELSE SlotEvents(SlotsOf(mob)[Min(FruitfulSlots(mob))])

\* a candidate of the selection: more than one event, or one event with a name
Qualifies(events) ==
    \/ Len(events) > 1
    \/ Len(events) = 1 /\ events[1].name # "Unknown Clip"

Candidates == {i \in DOMAIN CompMobs : Qualifies(FirstSlotEvents(CompMobs[i]))}

C22_FirstFruitfulSlot ==
    (pcm.t = "call" /\ FruitfulSlots(pcm.node) # {}) =>
        /\ pcm.result.t = "list"
        /\ pcm.result.items = FirstSlotEvents(pcm.node)

(***************************************************************************)
(* The events of parse_components against the components they come from   *)
(***************************************************************************)
\* the SourceClips of the Components node, in order
ClipsOf(children) == SelectSeq(children, LAMBDA c : IsClip(c))

\* the first child of the clip's "Source Mob Ref" child, None without one
MobRefChild(clip) ==
    LET i == FirstNamed(clip.children, "Source Mob Ref")
    IN  IF i = 0 THEN None
        ELSE IF "children" \notin DOMAIN clip.children[i] \/ clip.children[i].children = <<>>
        THEN None
        ELSE clip.children[i].children[1]

\* C23: the event of a SourceClip is named after the first child of the clip's
\* "Source Mob Ref" child when there is one, and "Unknown Clip" otherwise
C23_ClipNameFromMobRef ==
    Returned =>
        \A k \in DOMAIN timeline.items :
            LET ref == MobRefChild(ClipsOf(comps.children)[k])
            IN  timeline.items[k].name = IF ref = None THEN "Unknown Clip" ELSE ref.name

\* the "Length" of the clip is absent, null or a string that is no integer
LengthUnusable(clip) ==
    LET length == get_child_property(clip, "Length", "value")
    IN  \/ length = None
        \/ length.t = "str" /\ PyIntOfStr(length.s) = Raised

\* C24: parse_components does not fail on a SourceClip whose "Length" is absent,
\* null or unparseable: it returns one event per SourceClip, the event of such
\* a clip with duration_frames 0
C24_LengthDefaultsToZero ==
    timeline # NotRun =>
        /\ Returned
        /\ Len(timeline.items) = Len(ClipsOf(comps.children))
        /\ \A k \in DOMAIN timeline.items :
              LengthUnusable(ClipsOf(comps.children)[k]) => timeline.items[k].duration_frames = 0

\* the OperationGroup yields a parameter with keyframes
Animated(c) == c \in {OpacityGroup(FALSE), OpacityGroup(TRUE)}

\* the animated OperationGroups that follow the k-th SourceClip before the next
AnimatedAfter(children, k) ==
    {i \in DOMAIN children :
        /\ IsDict(children[i])
        /\ Animated(children[i])
        /\ ClipCount(children, i) = k}

SlotClasses == {"TimelineMobSlot", "EventMobSlot", "StaticMobSlot"}

RECURSIVE NoExcludedSlot(_)
\* no node of the document is a slot whose lower-cased name is excluded
NoExcludedSlot(node) ==
    /\ ~(node.class \in SlotClasses /\ Lower(node.name) \in EXCLUDED_TRACK_NAMES)
    /\ "children" \in DOMAIN node =>
          \A i \in DOMAIN node.children : NoExcludedSlot(node.children[i])

\* C26: no document the batch converter saves holds a node built from a slot
\* whose lower-cased name is in EXCLUDED_TRACK_NAMES, whatever mob owns it
C26_NoExcludedTrack ==
    Saved => NoExcludedSlot(batch.doc)

RECURSIVE CompositionsHaveSlots(_)
\* every CompositionMob node of the document has a child named "Slots"
CompositionsHaveSlots(node) ==
    /\ node.class = "CompositionMob" =>
          "children" \in DOMAIN node /\ FirstNamed(node.children, "Slots") # 0
    /\ "children" \in DOMAIN node =>
          \A i \in DOMAIN node.children : CompositionsHaveSlots(node.children[i])

\* C27: in the document the batch converter saves, every CompositionMob has
\* the child named "Slots" under which parse_composition_mob looks for the
\* mob's slots
C27_SlotsNodeEmitted ==
    Saved => CompositionsHaveSlots(batch.doc)

(***************************************************************************)
(* trim_json.py: process_json over a document with a composition_mob and   *)
(* source_mobs, applied again to its own output                            *)
(***************************************************************************)
MaxSlots == 2
MaxSourceMobs == 2
MaxPasses == 2

RECURSIVE collect_referenced_mob_ids(_)
\* the mob ids collect_referenced_mob_ids adds to mob_ids_set for the segment
collect_referenced_mob_ids(segment) ==
    IF ~Truthy(segment) THEN {}
    ELSE (IF DictGet(segment, "class_name", None) = PyStr(<<"SourceClip">>)
             /\ Truthy(DictGet(segment, "source_id", None))
          THEN {segment.source_id} ELSE {})
         \cup UNION {collect_referenced_mob_ids(nested) :
                        nested \in Range(DictGet(segment, "input_segments", <<>>))}
         \cup UNION {collect_referenced_mob_ids(nested) :
                        nested \in Range(DictGet(segment, "components", <<>>))}

\* referenced_ids: over every slot of the composition as it is on entry
ReferencedIds(data) ==
    IF "composition_mob" \notin DOMAIN data THEN {}
    ELSE UNION {collect_referenced_mob_ids(DictGet(slot, "segment", <<>>)) :
                   slot \in Range(DictGet(data.composition_mob, "slots", <<>>))}

filter_essence_descriptor(descriptor) ==
    IF ~Truthy(descriptor) THEN <<>>
    ELSE [k \in (DOMAIN descriptor) \cap {"edit_rate"} |-> descriptor[k]]

\* data["source_mobs"] = [sm for sm in ... if sm.get("mob_id") in referenced_ids]
DropOrphans(data, referenced_ids) ==
    IF "source_mobs" \notin DOMAIN data THEN data
    ELSE [data EXCEPT !.source_mobs =
              SelectSeq(@, LAMBDA sm : DictGet(sm, "mob_id", None) \in referenced_ids)]

\* keep the slots whose data_definition is "Picture" or "Timecode"
FilterSlots(data) ==
    IF "composition_mob" \notin DOMAIN data THEN data
    ELSE [data EXCEPT !.composition_mob =
              DictSet(@, "slots",
                      SelectSeq(DictGet(@, "slots", <<>>),
                                LAMBDA sl : DictGet(sl, "data_definition", None)
                                                \in {PyStr(<<"Picture">>), PyStr(<<"Timecode">>)}))]

\* sm["essence_descriptor"] = filter_essence_descriptor(sm.get("essence_descriptor", {}))
FilterDescriptors(data) ==
    IF "source_mobs" \notin DOMAIN data THEN data
    ELSE [data EXCEPT !.source_mobs =
              [i \in DOMAIN @ |->
                  DictSet(@[i], "essence_descriptor",
                          filter_essence_descriptor(DictGet(@[i], "essence_descriptor", <<>>)))]]

\* the TaggedValues of the composition and of every source mob, filtered
FilterTags(data, excluded_names) ==
    LET d == IF "composition_mob" \notin DOMAIN data THEN data
             ELSE [data EXCEPT !.composition_mob =
                      DictSet(@, "TaggedValues",
                              filter_taggedvalues(DictGet(@, "TaggedValues", <<>>),
                                                  excluded_names).items)]
    IN  IF "source_mobs" \notin DOMAIN d THEN d
        ELSE [d EXCEPT !.source_mobs =
                 [i \in DOMAIN @ |->
                     DictSet(@[i], "TaggedValues",
                             filter_taggedvalues(DictGet(@[i], "TaggedValues", <<>>),
                                                 excluded_names).items)]]

process_json(data, excluded_taggedvalues) ==
    FilterTags(FilterDescriptors(FilterSlots(DropOrphans(data, ReferencedIds(data)))),
               excluded_taggedvalues)

\* the segments, slots and source mobs of the input documents
SourceClipSegment(id) == [class_name |-> PyStr(<<"SourceClip">>), source_id |-> PyStr(<<id>>)]
SequenceSegment(components) == [class_name |-> PyStr(<<"Sequence">>), components |-> components]
TrackSlot(data_definition, segment) ==
    [data_definition |-> PyStr(<<data_definition>>), segment |-> segment]

SlotPool ==
    {TrackSlot("Picture", SequenceSegment(<<SourceClipSegment("m1")>>)),
     TrackSlot("Sound", SourceClipSegment("m2")),
     TrackSlot("Sound", SequenceSegment(<<SourceClipSegment("m1"), SourceClipSegment("m3")>>)),
     [data_definition |-> PyStr(<<"Timecode">>)]}

SourceMobPool ==
    {[mob_id |-> PyStr(<<"m1">>),
      essence_descriptor |-> [edit_rate |-> PyInt(25), codec |-> PyStr(<<"x">>)]],
     [mob_id |-> PyStr(<<"m2">>), TaggedValues |-> <<Tagged(<<"A", "b">>), Tagged(<<"C">>)>>],
     [mob_id |-> PyStr(<<"m3">>)],
     [name |-> PyStr(<<"n">>)]}

DataDocuments ==
    {[composition_mob |-> [slots |-> slots], source_mobs |-> mobs] :
        slots \in SeqsUpTo(SlotPool, MaxSlots), mobs \in SeqsUpTo(SourceMobPool, MaxSourceMobs)}
    \cup {[source_mobs |-> mobs] : mobs \in SeqsUpTo(SourceMobPool, MaxSourceMobs)}
    \cup {[composition_mob |-> <<>>]}

InitProcess ==
    /\ \E data \in DataDocuments, labels \in {{}, {PyStr(<<"A", "b">>)}} :
          trim = [data |-> data, excluded_names |-> PySet(labels), before |-> NotRun, passes |-> 0]
    /\ worker = NotRun
    /\ app = ""
    /\ graph = <<>>
    /\ tree = <<>>
    /\ last = NotRun
    /\ exports = <<>>
    /\ window = NotRun
    /\ steps = 0
    /\ batch = NotRun
    /\ ParseIdle

\* main: data = process_json(data, excluded_taggedvalues), run on what the
\* previous run saved
ProcessJson ==
    /\ trim.passes < MaxPasses
    /\ trim' = [trim EXCEPT !.before = trim.data,
                            !.data = process_json(trim.data, trim.excluded_names),
                            !.passes = @ + 1]
    /\ UNCHANGED <<app, graph, tree, last, exports, steps, batch, worker, parseVars, window>>

NextProcess == ProcessJson

SpecProcess == InitProcess /\ [][NextProcess]_vars

\* C28: process_json applied to a document that process_json returned
\* changes nothing
C28_ProcessJsonIdempotent ==
    trim.passes >= 2 => trim.data = trim.before

(***************************************************************************)
(* The inspector window: the file handle it holds, loadAafFile and the     *)
(* file watcher (AAFInspector.py and AAFInspector-enhanced.py)             *)
(***************************************************************************)
MaxChanges == 2
MaxLoads == 2

\* the paths the options dialog can return: InputDialog.accept refuses an
\* empty path and a path that does not exist
Paths == {PyStr(<<"a">>), PyStr(<<"b">>)}

\* the options dialog's check boxes: some view ticked, or none
OptionSets == {[toplevel |-> TRUE], [toplevel |-> FALSE]}

\* Window.__init__; disk and handles are the surroundings: the version of
\* each file on disk and every handle aaf2.open returned to this window;
\* searches, visited and calls record the _perform_search runs, the rows
\* _navigate_results made current and the find calls made
Window ==
    [current_file_path |-> None, current_options |-> None, aaf_file |-> None,
     fs_watcher |-> None, model |-> None,
     search_results |-> <<>>, current_search_index |-> -1, last_search_term |-> PyStr(<<>>),
     searches |-> 0, visited |-> <<>>, calls |-> <<>>,
     disk |-> [p \in Paths |-> 0], handles |-> <<>>, signals |-> {}, loads |-> 0, event |-> ""]

\* self.aaf_file.close()
CloseHandle(w) ==
    [w EXCEPT !.handles[w.aaf_file.h].open = FALSE]

\* aaf2.open(file_path, 'r'): a handle on the file as it is on disk now
OpenHandle(w, file_path) ==
    [w EXCEPT !.handles = Append(@, [path |-> file_path, version |-> w.disk[file_path], open |-> TRUE]),
              !.aaf_file = [t |-> "AAFFile", h |-> Len(w.handles) + 1]]

\* the except branch of loadAafFile
LoadFailed(w) ==
    [(IF w.aaf_file # None THEN CloseHandle(w) ELSE w)
        EXCEPT !.model = None, !.aaf_file = None, !.current_file_path = None, !.fs_watcher = None]

\* loadAafFile from "f = self.aaf_file" on: the root data of the ticked
\* views (AAFInspector falls back to f.content when none is ticked, the
\* enhanced inspector shows nothing), the model and the watcher
InstallModel(w, file_path) ==
    [w EXCEPT !.model = IF app = "AAFInspector" \/ w.current_options.toplevel
                        THEN [t |-> "AAFModel", f |-> w.aaf_file.h]
                        ELSE None,
              !.fs_watcher = file_path]

\* loadAafFile, after the test of its arguments
LoadPath(w, file_path, options, opens) ==
    LET closed == IF w.aaf_file # None /\ w.current_file_path # file_path
                  THEN [CloseHandle(w) EXCEPT !.aaf_file = None]
                  ELSE w
        current == [closed EXCEPT !.current_file_path = file_path, !.current_options = options]
    IN IF current.aaf_file # None THEN InstallModel(current, file_path)
       ELSE IF opens THEN InstallModel(OpenHandle(current, file_path), file_path)
       ELSE LoadFailed(current)

\* Window.loadAafFile(file_path, options); opens tells whether aaf2.open
\* succeeds
loadAafFile(w, file_path, options, opens) ==
    IF file_path = None \/ options = None
    THEN IF app = "AAFInspector"
         THEN [(IF w.aaf_file # None THEN CloseHandle(w) ELSE w)
                  EXCEPT !.model = None, !.current_file_path = None, !.current_options = None,
                         !.aaf_file = None, !.fs_watcher = None]
         ELSE [w EXCEPT !.model = None, !.current_file_path = None]
    ELSE LoadPath(w, file_path, options, opens)

\* Window.fileChangedHandler(path) with the answer to its question
fileChangedHandler(w, path, yes, opens) ==
    IF path = w.current_file_path
    THEN IF yes THEN loadAafFile(w, w.current_file_path, w.current_options, opens)
         ELSE [w EXCEPT !.fs_watcher = w.current_file_path]
    ELSE IF app = "AAFInspector" /\ w.fs_watcher = path THEN [w EXCEPT !.fs_watcher = None]
    ELSE w

InitReload ==
    /\ app \in Apps
    /\ window = Window
    /\ graph = <<>>
    /\ tree = <<>>
    /\ last = NotRun
    /\ exports = <<>>
    /\ steps = 0
    /\ batch = NotRun
    /\ worker = NotRun
    /\ trim = NotRun
    /\ ParseIdle

\* __main__ and showOptionsDialog: the user picks a file and the views
LoadAafFile(file_path, options, opens) ==
    /\ window.loads < MaxLoads
    /\ window.loads > 0 => (window.current_options # None /\ window.current_file_path # None)
    /\ window' = [loadAafFile(window, file_path, options, opens)
                     EXCEPT !.loads = @ + 1, !.event = "loaded"]
    /\ UNCHANGED <<app, graph, tree, last, exports, steps, batch, worker, trim, parseVars>>

\* another program rewrites a file; QFileSystemWatcher queues fileChanged
\* for the path it watches
FileChanges(path) ==
    /\ window.disk[path] < MaxChanges
    /\ window' = [window EXCEPT !.disk[path] = @ + 1,
                                !.signals = IF window.fs_watcher = path THEN @ \cup {path} ELSE @,
                                !.event = "changed"]
    /\ UNCHANGED <<app, graph, tree, last, exports, steps, batch, worker, trim, parseVars>>

\* the queued fileChanged signal is delivered and the user answers
FileChangedHandler(path, yes, opens) ==
    /\ path \in window.signals
    /\ window' = [fileChangedHandler(window, path, yes, opens)
                     EXCEPT !.signals = @ \ {path},
                            !.event = IF path # window.current_file_path THEN "ignored"
                                      ELSE IF yes THEN "reloaded" ELSE "declined"]
    /\ UNCHANGED <<app, graph, tree, last, exports, steps, batch, worker, trim, parseVars>>

NextReload ==
    \/ \E file_path \in Paths, options \in OptionSets, opens \in BOOLEAN :
          LoadAafFile(file_path, options, opens)
    \/ \E path \in Paths : FileChanges(path)
    \/ \E path \in Paths, yes \in BOOLEAN, opens \in BOOLEAN : FileChangedHandler(path, yes, opens)

SpecReload == InitReload /\ [][NextReload]_vars

OpenHandles == {h \in DOMAIN window.handles : window.handles[h].open}

\* the window never holds more than one open handle
OneOpenHandle == Cardinality(OpenHandles) <= 1

\* C29: after an accepted reload the model the window shows is built from an
\* open handle that was opened on the file as it is now on disk, and the
\* window never holds more than one open handle
C29_ReloadReopens ==
    /\ OneOpenHandle
    /\ (window.event = "reloaded" /\ window.model # None) =>
          LET f == window.handles[window.model.f]
          IN f.open /\ f.version = window.disk[f.path]

(***************************************************************************)
(* The search of the enhanced inspector: _perform_search, find_next and    *)
(* find_previous                                                           *)
(***************************************************************************)
MaxRows == 2
MaxFinds == 3

\* "sub in s" on two Python strings, given as their characters
Contains(sub, s) ==
    \E i \in 0..(Len(s) - Len(sub)) : SubSeq(s, i + 1, i + Len(sub)) = sub

\* the inner loop of _search_recursive: some column of the row shows the term
RowMatches(row, search_term) ==
    \E c \in DOMAIN row.cells : Contains(search_term, LowerStr(row.cells[c]))

\* Window._search_recursive(parent_index, search_term): the rows it appends
\* to search_results, each by its path of row numbers
RECURSIVE _search_recursive(_, _, _)
_search_recursive(rows, parent, search_term) ==
    IF rows = <<>> THEN <<>>
    ELSE LET r == Len(rows)
             row == rows[r]
         IN _search_recursive(SubSeq(rows, 1, r - 1), parent, search_term)
            \o (IF RowMatches(row, search_term) THEN <<Append(parent, r)>> ELSE <<>>)
            \o _search_recursive(row.children, Append(parent, r), search_term)

\* Window._perform_search(search_term)
_perform_search(w, search_term) ==
    LET cleared == [w EXCEPT !.last_search_term = search_term,
                             !.search_results = <<>>,
                             !.current_search_index = -1,
                             !.searches = @ + 1]
    IN IF w.model = None THEN cleared
       ELSE [cleared EXCEPT !.search_results =
                               _search_recursive(w.model.rows, <<>>, LowerStr(search_term))]

\* Window._navigate_results: the row at current_search_index becomes the
\* current row
_navigate_results(w) ==
    IF w.search_results = <<>> THEN w
    ELSE [w EXCEPT !.visited = Append(@, w.search_results[w.current_search_index + 1])]

\* find_next and find_previous up to their second "if not
\* self.search_results": the search is repeated when the lower-cased term
\* differs from the term stored by the last search
Searched(w, search_term) ==
    IF LowerStr(search_term) # w.last_search_term.s THEN _perform_search(w, search_term) ELSE w

\* Window.find_next(search_term)
find_next(w, search_term) ==
    IF search_term.s = <<>> THEN w
    ELSE LET s == Searched(w, search_term)
             n == Len(s.search_results)
         IN IF n = 0 THEN s
            ELSE _navigate_results(
                    [s EXCEPT !.current_search_index = IF @ + 1 >= n THEN 0 ELSE @ + 1])

\* Window.find_previous(search_term)
find_previous(w, search_term) ==
    IF search_term.s = <<>> THEN w
    ELSE LET s == Searched(w, search_term)
             n == Len(s.search_results)
         IN IF n = 0 THEN s
            ELSE _navigate_results(
                    [s EXCEPT !.current_search_index = IF @ - 1 < 0 THEN n - 1 ELSE @ - 1])

Row(cells, children) == [cells |-> cells, children |-> children]

LeafRows ==
    {Row(<<PyStr(<<"A", "b">>)>>, <<>>),
     Row(<<PyStr(<<"b">>), PyStr(<<"a">>)>>, <<>>),
     Row(<<PyStr(<<"a">>), PyStr(<<"A">>)>>, <<>>),
     Row(<<PyStr(<<"c">>)>>, <<>>)}

RowPool ==
    LeafRows \cup {Row(<<PyStr(<<"a", "b">>)>>, <<leaf>>) : leaf \in LeafRows}

\* what SearchDialog passes on: the text of its input, never empty
Terms == {PyStr(<<"a">>), PyStr(<<"A">>), PyStr(<<"a", "b">>), PyStr(<<"A", "b">>)}

InitSearch ==
    /\ app = "AAFInspector-enhanced"
    /\ \E rows \in SeqsUpTo(RowPool, MaxRows) :
          window = [Window EXCEPT !.model = [t |-> "AAFModel", rows |-> rows]]
    /\ graph = <<>>
    /\ tree = <<>>
    /\ last = NotRun
    /\ exports = <<>>
    /\ steps = 0
    /\ batch = NotRun
    /\ worker = NotRun
    /\ trim = NotRun
    /\ ParseIdle

\* SearchDialog.find_next
FindNext(search_term) ==
    /\ Len(window.calls) < MaxFinds
    /\ window' = [find_next(window, search_term)
                     EXCEPT !.calls = Append(@, [op |-> "find_next", term |-> search_term])]
    /\ UNCHANGED <<app, graph, tree, last, exports, steps, batch, worker, trim, parseVars>>

\* SearchDialog.find_previous
FindPrevious(search_term) ==
    /\ Len(window.calls) < MaxFinds
    /\ window' = [find_previous(window, search_term)
                     EXCEPT !.calls = Append(@, [op |-> "find_previous", term |-> search_term])]
    /\ UNCHANGED <<app, graph, tree, last, exports, steps, batch, worker, trim, parseVars>>

NextSearch ==
    \/ \E search_term \in Terms : FindNext(search_term)
    \/ \E search_term \in Terms : FindPrevious(search_term)

SpecSearch == InitSearch /\ [][NextSearch]_vars

\* the rows of the model that show the term whatever its case, in the order
\* the search meets them
MatchesOf(search_term) == _search_recursive(window.model.rows, <<>>, LowerStr(search_term))

\* every call so far was find_next with one and the same term
OnlyFindNext ==
    /\ window.calls # <<>>
    /\ \A i \in DOMAIN window.calls :
          window.calls[i] = [op |-> "find_next", term |-> window.calls[1].term]

\* C30: k consecutive find_next calls with one term that has n >= 1 matches
\* made the matches current one after the other in result order, wrapping
\* to the first after the last, and the search ran once, on the first call
C30_FindNextCycles ==
    (OnlyFindNext /\ MatchesOf(window.calls[1].term) # <<>>) =>
        LET matches == MatchesOf(window.calls[1].term)
            n == Len(matches)
        IN /\ window.visited = [i \in DOMAIN window.calls |-> matches[((i - 1) % n) + 1]]
           /\ window.searches = 1

\* the same for a term without upper-case letters
LowerCaseFindNextCycles ==
    (OnlyFindNext /\ LowerStr(window.calls[1].term) = window.calls[1].term.s) => C30_FindNextCycles

====
